---- MODULE Spec2Model ----
(***************************************************************************)
(* A model of the OCP quiz tutor (app.py, ui_components.py, db_utils.py):  *)
(* the per-browser quiz session kept in st.session_state, the script       *)
(* rerun that renders the current view, the grading pass of the results    *)
(* view and the SQLite tables they read and write.                         *)
(*                                                                         *)
(* Option labels 'A', 'B', ... are the numbers 1, 2, ... so that Python's  *)
(* sorted() on a list of labels is a sort on numbers.                      *)
(***************************************************************************)
EXTENDS Integers, Sequences, FiniteSets, TLC

\* ------------------------------------------------------------------ bounds
MaxOrig    == 2   \* original_questions ids are 1..MaxOrig
MaxMod     == 1   \* modified_questions AUTOINCREMENT ids are 1..MaxMod
MaxRecords == 1   \* rows held by the user_answers table
MaxClock   == 2   \* distinct CURRENT_TIMESTAMP seconds
MaxLog     == 3   \* rows of a user_answers log handed to the queries
MaxText    == 6   \* tokens of a response handed to the JSON parser
MaxWords   == 3   \* tokens of a response handed to analyze_difficulty

Labels == {1, 2}

\* ------------------------------------------------------- pure helpers
\* list.insert into a sorted list, the step of sorted()
RECURSIVE InsertSorted(_, _)
InsertSorted(x, s) ==
    IF s = <<>> THEN <<x>>
    ELSE IF x <= Head(s) THEN <<x>> \o s
    ELSE <<Head(s)>> \o InsertSorted(x, Tail(s))

RECURSIVE sorted(_)
sorted(s) == IF s = <<>> THEN <<>> ELSE InsertSorted(Head(s), sorted(Tail(s)))

ToSet(s) == {s[i] : i \in DOMAIN s}

\* list.remove(x): drops the first occurrence of x
RECURSIVE ListRemove(_, _)
ListRemove(s, x) ==
    IF s = <<>> THEN <<>>
    ELSE IF Head(s) = x THEN Tail(s)
    ELSE <<Head(s)>> \o ListRemove(Tail(s), x)

\* all duplicate-free sequences over S
RECURSIVE Perms(_)
Perms(S) ==
    IF S = {} THEN {<<>>}
    ELSE UNION {{<<x>> \o p : p \in Perms(S \ {x})} : x \in S}

Arrangements(S) == UNION {Perms(T) : T \in SUBSET S}

\* ------------------------------------------------------------ the tables
\* A question row. The options column holds json.dumps of a dict whose keys
\* are the option labels; the answer column holds json.dumps of a list of
\* labels or of None ("null"), and json.loads gives that value back.
ListAnswer(s) == [kind |-> "list", items |-> s]
NullAnswer    == [kind |-> "null", items |-> <<>>]
\* the difficulty column: 'easy', 'medium', 'hard' stand for the three
\* Korean words; rows loaded without one get 'medium'
Question(o, a) == [options |-> o, answer |-> a, difficulty |-> "medium"]
Easy(question) == [question EXCEPT !.difficulty = "easy"]

\* answer lists that the files and the AI hand in
AnswerInputs == {<<>>, <<1>>, <<2, 1>>}
\* the contents of questions_final.json tried: well-formed keys, the empty
\* keys parser.py writes ("answer": []) beside a null, and a file that
\* drops question 2 and turns question 1 into a two-answer question
FileInputs ==
    { (1 :> Easy(Question(Labels, ListAnswer(<<1>>)))) @@ (2 :> Question(Labels, ListAnswer(<<2, 1>>))),
      (1 :> Question(Labels, ListAnswer(<<>>))) @@ (2 :> Question(Labels, NullAnswer)),
      (1 :> Question(Labels, ListAnswer(<<2, 1>>))) }
\* results of generate_modified_question without an "error" key:
\* the answer is always a list
GeneratedQuestions == {Question(Labels, ListAnswer(a)) : a \in AnswerInputs}

Users == {"u1"}
Views == {"home", "tutor", "quiz", "results", "notes", "analytics", "manage"}
menu_items == {"home", "tutor", "notes", "analytics", "manage"}

VARIABLES
    authentication_status,   \* st.session_state.authentication_status
    username,                \* st.session_state.username
    current_view,            \* st.session_state.current_view
    questions_to_solve,      \* st.session_state.questions_to_solve
    current_question_index,  \* st.session_state.current_question_index (0-based)
    user_answers,            \* st.session_state.user_answers: index -> list
    original_questions,      \* table original_questions: id -> row
    modified_questions,      \* table modified_questions: id -> row
    modified_seq,            \* sqlite_sequence of modified_questions
    user_answers_tbl,        \* table user_answers, in rowid order
    results_out,             \* what display_results did in the step just taken, if it ran
    notes_out,               \* the rows render_notes_page got in the step just taken, if it ran
    analytics_out,           \* what render_analytics_page got in the step just taken, if it ran
    response,                \* what model.generate_content gives the call being made
    gemini_out,              \* the function of gemini_handler called last and its result
    ai_explanations,         \* table ai_explanations: (id, type) -> explanation
    explained_from,          \* the question each stored explanation was generated from
    grading,                 \* where a results page that is being drawn is in its loop
    users,                   \* table users: its rows
    browsers,                \* per browser session: db_setup_done and who is signed in
    questions_final,         \* the file questions_final.json
    last                     \* the handler of the step just taken

session == <<authentication_status, username, current_view, questions_to_solve,
             current_question_index, user_answers>>
tables  == <<original_questions, modified_questions, modified_seq, user_answers_tbl>>
gemini  == <<response, gemini_out, ai_explanations, explained_from>>
beside  == <<grading, users, browsers, questions_final>>
vars    == <<session, tables, results_out, notes_out, analytics_out, gemini, beside, last>>

EmptyDict == [i \in {} |-> <<>>]
Entry(id, type) == [id |-> id, type |-> type]

\* dict.get(i, [])
Get(d, i) == IF i \in DOMAIN d THEN d[i] ELSE <<>>
\* d[i] = v
Put(d, i, v) == [j \in DOMAIN d \cup {i} |-> IF j = i THEN v ELSE d[j]]

HasQuestion(oq, mq, e) ==
    IF e.type = "original" THEN e.id \in DOMAIN oq ELSE e.id \in DOMAIN mq

get_question_by_id(oq, mq, e) ==
    IF e.type = "original" THEN oq[e.id] ELSE mq[e.id]

\* ------------------------------------------------- selecting an option
\* display_question: the labels drawn as buttons and the required count
shown_options(question) ==
    IF question.answer.kind = "list" THEN question.options ELSE {}

\* len(...) without "or 1"
answer_count_len(question) ==
    IF question.answer.kind = "list" THEN Len(question.answer.items) ELSE 1

answer_count(question) ==
    IF question.answer.kind = "list" /\ Len(question.answer.items) # 0
    THEN Len(question.answer.items)
    ELSE 1

\* a handler that toggles whatever the required count is
_handle_choice_selection_toggle(chosen, choice_key, count) ==
    IF choice_key \in ToSet(chosen)
    THEN ListRemove(chosen, choice_key)
    ELSE Append(chosen, choice_key)

\* a handler that replaces whatever the required count is
_handle_choice_selection_replace(chosen, choice_key, count) == <<choice_key>>

\* _handle_choice_selection: the new list at the cursor
_handle_choice_selection(chosen, choice_key, count) ==
    IF count > 1
    THEN IF choice_key \in ToSet(chosen)
         THEN ListRemove(chosen, choice_key)
         ELSE Append(chosen, choice_key)
    ELSE <<choice_key>>

\* ------------------------------------------------------------- grading
correct_answer(question) ==
    IF question.answer.kind = "list" THEN sorted(question.answer.items) ELSE <<>>

\* the comparison without "and correct_answer != []"
is_correct_any_key(user_answer, question) == user_answer = correct_answer(question)

is_correct(user_answer, question) ==
    user_answer = correct_answer(question) /\ correct_answer(question) # <<>>

\* the row save_user_answer inserts
save_user_answer(user, q_info, user_choice, correct, ts) ==
    [username |-> user, question_id |-> q_info.id, question_type |-> q_info.type,
     user_choice |-> user_choice, is_correct |-> correct, solved_at |-> ts]

\* a loop that returns at the first entry whose question is gone
RECURSIVE display_results_loop_abort(_, _, _, _, _, _, _)
display_results_loop_abort(qs, ans, user, oq, mq, ts, i) ==
    IF i >= Len(qs)
    THEN [saved |-> <<>>, shown |-> <<>>, correct_count |-> 0]
    ELSE LET q_info == qs[i + 1]
         IN IF ~HasQuestion(oq, mq, q_info)
            THEN [saved |-> <<>>, shown |-> [j \in 1..(Len(qs) - i) |-> "missing"],
                  correct_count |-> 0]
            ELSE LET rest        == display_results_loop_abort(qs, ans, user, oq, mq, ts, i + 1)
                     question    == get_question_by_id(oq, mq, q_info)
                     user_answer == sorted(Get(ans, i))
                 IN IF is_correct(user_answer, question)
                    THEN [rest EXCEPT !.shown = <<"correct">> \o @,
                                      !.correct_count = @ + 1]
                    ELSE [rest EXCEPT !.shown = <<"incorrect">> \o @,
                                      !.saved = <<save_user_answer(user, q_info,
                                                     user_answer, FALSE, ts)>> \o @]

\* the for loop of display_results from index i on: the rows it saves, the
\* verdict it shows per entry and the number it counts as correct
RECURSIVE display_results_loop(_, _, _, _, _, _, _)
display_results_loop(qs, ans, user, oq, mq, ts, i) ==
    IF i >= Len(qs)
    THEN [saved |-> <<>>, shown |-> <<>>, correct_count |-> 0]
    ELSE LET q_info == qs[i + 1]
             rest   == display_results_loop(qs, ans, user, oq, mq, ts, i + 1)
         IN IF ~HasQuestion(oq, mq, q_info)
            THEN [rest EXCEPT !.shown = <<"missing">> \o @]
            ELSE LET question    == get_question_by_id(oq, mq, q_info)
                     user_answer == sorted(Get(ans, i))
                 IN IF is_correct(user_answer, question)
                    THEN [rest EXCEPT !.shown = <<"correct">> \o @,
                                      !.correct_count = @ + 1]
                    ELSE [rest EXCEPT !.shown = <<"incorrect">> \o @,
                                      !.saved = <<save_user_answer(user, q_info,
                                                     user_answer, FALSE, ts)>> \o @]

NoResults ==
    [rendered |-> FALSE, shown |-> <<>>, saved |-> <<>>, correct_count |-> 0,
     total_questions |-> 0, score_shown |-> FALSE]

\* a pass that computes the score without looking at total_questions
display_results_unguarded(qs, ans, user, oq, mq, tbl, ts) ==
    LET pass == display_results_loop(qs, ans, user, oq, mq, ts, 0)
    IN [tbl |-> tbl \o pass.saved,
        out |-> [rendered |-> TRUE, shown |-> pass.shown, saved |-> pass.saved,
                 correct_count |-> pass.correct_count,
                 total_questions |-> Len(qs),
                 score_shown |-> TRUE]]

\* display_results: the table after the pass and what the page shows
display_results(qs, ans, user, oq, mq, tbl, ts) ==
    LET pass == display_results_loop(qs, ans, user, oq, mq, ts, 0)
    IN [tbl |-> tbl \o pass.saved,
        out |-> [rendered |-> TRUE, shown |-> pass.shown, saved |-> pass.saved,
                 correct_count |-> pass.correct_count,
                 total_questions |-> Len(qs),
                 score_shown |-> Len(qs) > 0]]

\* ------------------------------------------------------------- queries
Min(a, b) == IF a <= b THEN a ELSE b

MaxOf(S) == IF S = {} THEN 0 ELSE CHOOSE m \in S : \A x \in S : x <= m

\* the seconds CURRENT_TIMESTAMP can give the next insert
Stamps(tbl) ==
    LET m == MaxOf({tbl[i].solved_at : i \in DOMAIN tbl})
    IN {t \in {m, m + 1} : 1 <= t /\ t <= MaxClock}

\* get_wrong_answers: the rows the WHERE and the JOIN keep
WrongRows(user, tbl, oq, mq) ==
    {i \in DOMAIN tbl :
        /\ tbl[i].is_correct = FALSE
        /\ tbl[i].username = user
        /\ HasQuestion(oq, mq, Entry(tbl[i].question_id, tbl[i].question_type))}

\* the columns "ua.question_type, q.*" of one group (texts left out)
WrongRow(r) == [question_type |-> r.question_type, type |-> r.question_type,
                id |-> r.question_id]

WrongGroups(user, tbl, oq, mq) ==
    {WrongRow(tbl[i]) : i \in WrongRows(user, tbl, oq, mq)}

\* MAX(ua.solved_at) of a group
LastWrongAt(user, tbl, oq, mq, g) ==
    MaxOf({tbl[i].solved_at : i \in {j \in WrongRows(user, tbl, oq, mq) :
              WrongRow(tbl[j]) = g}})

\* the row orders ORDER BY MAX(ua.solved_at) DESC allows
get_wrong_answers(user, tbl, oq, mq) ==
    {p \in Perms(WrongGroups(user, tbl, oq, mq)) :
        \A i, j \in DOMAIN p :
            i < j => LastWrongAt(user, tbl, oq, mq, p[i]) >= LastWrongAt(user, tbl, oq, mq, p[j])}

\* get_stats: len(df), df['is_correct'].sum() and the accuracy in whole
\* percent, over the rows of the user
RECURSIVE CountRows(_, _, _)
CountRows(tbl, user, correct_only) ==
    IF tbl = <<>> THEN 0
    ELSE (IF Head(tbl).username = user /\ (~correct_only \/ Head(tbl).is_correct)
          THEN 1 ELSE 0) + CountRows(Tail(tbl), user, correct_only)

\* a count over the whole table, whoever wrote the rows
get_stats_of_everyone(user, tbl) ==
    LET total == Len(tbl)
        correct == Len(SelectSeq(tbl, LAMBDA r : r.is_correct))
    IN IF total = 0 THEN [total |-> 0, correct |-> 0, accuracy |-> 0]
       ELSE [total |-> total, correct |-> correct, accuracy |-> (correct * 100) \div total]

get_stats(user, tbl) ==
    LET total == CountRows(tbl, user, FALSE)
    IN IF total = 0 THEN [total |-> 0, correct |-> 0, accuracy |-> 0]
       ELSE LET correct == CountRows(tbl, user, TRUE)
            IN [total |-> total, correct |-> correct,
                accuracy |-> (correct * 100) \div total]

\* get_top_5_missed: the rows the WHERE and the JOIN keep
MissedRows(user, tbl, oq) ==
    {i \in DOMAIN tbl :
        /\ tbl[i].is_correct = FALSE
        /\ tbl[i].question_type = "original"
        /\ tbl[i].username = user
        /\ tbl[i].question_id \in DOMAIN oq}

\* COUNT(*) of the group of q.id
wrong_count(user, tbl, oq, id) ==
    Cardinality({i \in MissedRows(user, tbl, oq) : tbl[i].question_id = id})

\* ORDER BY wrong_count DESC, q.id ASC over the groups in S
RECURSIVE OrderMissed(_, _, _, _)
OrderMissed(user, tbl, oq, S) ==
    IF S = {} THEN <<>>
    ELSE LET first == CHOOSE a \in S : \A b \in S :
                        \/ wrong_count(user, tbl, oq, a) > wrong_count(user, tbl, oq, b)
                        \/ /\ wrong_count(user, tbl, oq, a) = wrong_count(user, tbl, oq, b)
                           /\ a <= b
         IN <<[id |-> first, wrong_count |-> wrong_count(user, tbl, oq, first)]>>
                \o OrderMissed(user, tbl, oq, S \ {first})

\* LIMIT 5
TopLimit == 5

\* the query without its LIMIT
get_top_5_missed_unlimited(user, tbl, oq) ==
    OrderMissed(user, tbl, oq, {tbl[i].question_id : i \in MissedRows(user, tbl, oq)})

get_top_5_missed(user, tbl, oq) ==
    LET all == OrderMissed(user, tbl, oq,
                           {tbl[i].question_id : i \in MissedRows(user, tbl, oq)})
    IN SubSeq(all, 1, Min(TopLimit, Len(all)))

\* ------------------------------------------------------ the script run
Cur ==
    [auth |-> authentication_status, user |-> username, view |-> current_view,
     qs |-> questions_to_solve, idx |-> current_question_index, ans |-> user_answers,
     oq |-> original_questions, mq |-> modified_questions, mseq |-> modified_seq,
     tbl |-> user_answers_tbl]

\* initialize_session_state: the defaults of the quiz keys
initialize_session_state(s) ==
    [s EXCEPT !.view = "home", !.qs = <<>>, !.idx = 0, !.ans = EmptyDict]

\* render_quiz_page up to its buttons
render_quiz_page(s) ==
    IF s.qs = <<>> THEN s
    ELSE IF s.idx \in DOMAIN s.ans THEN s
    ELSE [s EXCEPT !.ans = Put(@, s.idx, <<>>)]

\* render_results_page up to its button
render_results_page(s, ts) ==
    LET r == display_results(s.qs, s.ans, s.user, s.oq, s.mq, s.tbl, ts)
    IN [s |-> [s EXCEPT !.tbl = r.tbl], out |-> r.out]

\* main and run_main_app: one run of the script on session state s
run_main_app(s, ts) ==
    IF ~s.auth THEN [s |-> s, out |-> NoResults]
    ELSE IF s.view = "quiz" THEN [s |-> render_quiz_page(s), out |-> NoResults]
    ELSE IF s.view = "results" THEN render_results_page(s, ts)
    ELSE [s |-> s, out |-> NoResults]

Graded(out) == Cardinality({i \in DOMAIN out.shown : out.shown[i] # "missing"})

\* the handler of a step: an option click keeps the label, the list the
\* click (or, for the second of two clicks on one label, the pair) started
\* from, and whether it was such a second click; "previous" and "next"
\* keep the cursor they started from
\* a start keeps its route, the count and difficulty asked for, and the
\* numbers of generation calls made and of those that succeeded; a start by
\* id keeps the id, a request for an explanation the question it was made for;
\* a call of a function of gemini_handler keeps the number of requests it
\* sent to the API, a sign-up the user name typed
Handler(op) ==
    [op |-> op, label |-> 0, before |-> <<>>, repeat |-> FALSE, from |-> 0,
     route |-> "", asked |-> 0, difficulty |-> "", calls |-> 0, generated |-> 0,
     q_id |-> 0, q_type |-> "", requests |-> 0, name |-> ""]
NoClick == Handler("other")

NoAnalytics ==
    [rendered |-> FALSE, total |-> 0, correct |-> 0, accuracy |-> 0, top |-> <<>>]

\* render_analytics_page: the numbers and the rows it gets, when the script
\* draws that page
render_analytics_page(s) ==
    IF s.auth /\ s.view = "analytics"
    THEN LET stats == get_stats(s.user, s.tbl)
         IN [rendered |-> TRUE, total |-> stats.total, correct |-> stats.correct,
             accuracy |-> stats.accuracy, top |-> get_top_5_missed(s.user, s.tbl, s.oq)]
    ELSE NoAnalytics

\* render_notes_page: the rows it lists, when the script draws that page
NotesRows(s) ==
    IF s.auth /\ s.view = "notes"
    THEN get_wrong_answers(s.user, s.tbl, s.oq, s.mq)
    ELSE {<<>>}

CommitSession(s, out, rows, stats, l) ==
    /\ Len(s.tbl) > Len(user_answers_tbl) => Len(s.tbl) <= MaxRecords
    /\ authentication_status' = s.auth
    /\ username' = s.user
    /\ current_view' = s.view
    /\ questions_to_solve' = s.qs
    /\ current_question_index' = s.idx
    /\ user_answers' = s.ans
    /\ original_questions' = s.oq
    /\ modified_questions' = s.mq
    /\ modified_seq' = s.mseq
    /\ user_answers_tbl' = s.tbl
    /\ results_out' = out
    /\ notes_out' = rows
    /\ analytics_out' = stats
    /\ last' = l
    /\ UNCHANGED beside

\* a step that calls nothing of gemini_handler and leaves the explanations
Commit(s, out, rows, stats, l) ==
    /\ CommitSession(s, out, rows, stats, l)
    /\ UNCHANGED gemini

\* st.rerun(): the script runs again on the state the handler left
RerunSession(s, l) ==
    \E ts \in (IF s.auth /\ s.view = "results" THEN Stamps(s.tbl) ELSE {0}) :
        LET r == run_main_app(s, ts)
        IN \E rows \in NotesRows(r.s) :
              CommitSession(r.s, r.out, rows, render_analytics_page(r.s), l)

Rerun(s, l) ==
    /\ RerunSession(s, l)
    /\ UNCHANGED gemini

\* ------------------------------------------------------- gemini_handler
\* A text is a sequence of tokens: the opening fence followed by the word
\* json, a bare fence, the two braces, the members of an object ("a": 1,
\* say), a number, white space, and the words of a difficulty answer.
FenceJson == "fence_json"   \* the three backticks and the word json
Fence == "fence"            \* the three backticks
JsonTokens == {FenceJson, Fence, "{", "}", "m", "1", " "}
DifficultyLevels == {"easy", "medium", "hard"}
DifficultyTokens == DifficultyLevels \cup {"Easy", "x", " "}

\* the values of an "answer" member: a list of one string, or a scalar
Scalars == {[type |-> "string", s |-> "A", n |-> 0],
            [type |-> "number", s |-> "", n |-> 1],
            [type |-> "null", s |-> "", n |-> 0]}
NoScalar == [type |-> "null", s |-> "", n |-> 0]
Str(s) == [type |-> "string", s |-> s, n |-> 0]
Answers == {[type |-> "list", elem |-> Str("A")]}
               \cup {[type |-> e.type, elem |-> e] : e \in Scalars}
NoAnswer == [type |-> "null", elem |-> NoScalar]

\* what the token "m" of a response stands for: the keys of the object and
\* the value under "answer"
Members(keys, answer) == [keys |-> keys, answer |-> answer]
PlainMembers == Members({"a"}, NoAnswer)
VariantKeys == {"question", "options", "answer"}
MemberInputs ==
    {Members(k, NoAnswer) : k \in SUBSET (VariantKeys \ {"answer"})}
        \cup {Members(k \cup {"answer"}, a) :
                  k \in SUBSET (VariantKeys \ {"answer"}), a \in Answers}

\* Python values json.loads gives; None is what the parser gives up with
NoneValue == [kind |-> "none", keys |-> {}, answer |-> NoAnswer]
NumberValue == [kind |-> "number", keys |-> {}, answer |-> NoAnswer]
ObjectValue(m) == [kind |-> "object", keys |-> m.keys, answer |-> m.answer]
truthy(v) == v.kind = "number" \/ (v.kind = "object" /\ v.keys # {})

WithoutSpace(t) == SelectSeq(t, LAMBDA c : c # " ")

\* json.loads: white space around and between the tokens is skipped; the
\* texts that decode are a number and an object, empty or with members
json_loads(t, members) ==
    LET u == WithoutSpace(t)
    IN  CASE u = <<"1">>           -> [ok |-> TRUE, value |-> NumberValue]
          [] u = <<"{", "}">>      -> [ok |-> TRUE, value |-> ObjectValue(Members({}, NoAnswer))]
          [] u = <<"{", "m", "}">> -> [ok |-> TRUE, value |-> ObjectValue(members)]
          [] OTHER                 -> [ok |-> FALSE, value |-> NoneValue]

\* the first position after i that holds no white space, Len(t) + 1 if none
SkipSpace(t, i) ==
    LET rest == {j \in (i + 1)..Len(t) : t[j] # " "}
    IN  IF rest = {} THEN Len(t) + 1
        ELSE CHOOSE j \in rest : \A k \in rest : j <= k

\* \}\s*``` at e: a closing brace, white space, the three backticks (those
\* of an opening fence do as well)
ClosesAt(t, e) ==
    /\ t[e] = "}"
    /\ SkipSpace(t, e) <= Len(t)
    /\ t[SkipSpace(t, e)] \in {Fence, FenceJson}

\* ```json\s*(\{.*\})\s*``` from position i: the ends the group may have
GroupEnds(t, i) ==
    IF t[i] = FenceJson /\ SkipSpace(t, i) <= Len(t) /\ t[SkipSpace(t, i)] = "{"
    THEN {e \in (SkipSpace(t, i) + 1)..Len(t) : ClosesAt(t, e)}
    ELSE {}

\* re.search with re.DOTALL: the leftmost start that matches, and from it
\* the longest group (.* is greedy)
re_search(t) ==
    LET starts == {i \in 1..Len(t) : GroupEnds(t, i) # {}}
    IN  IF starts = {} THEN [found |-> FALSE, group |-> <<>>]
        ELSE LET i == CHOOSE j \in starts : \A k \in starts : j <= k
             IN  [found |-> TRUE,
                  group |-> SubSeq(t, SkipSpace(t, i), MaxOf(GroupEnds(t, i)))]

\* str.find and str.rfind of one character, 0 for the -1 of Python
find(t, c) ==
    LET at == {i \in 1..Len(t) : t[i] = c}
    IN  IF at = {} THEN 0 ELSE CHOOSE i \in at : \A k \in at : i <= k
rfind(t, c) == MaxOf({i \in 1..Len(t) : t[i] = c})

_clean_and_parse_json(raw_text, members) ==
    LET match == re_search(raw_text)
        json_text == IF match.found THEN match.group ELSE raw_text
        whole == json_loads(json_text, members)
        start == find(json_text, "{")
        end == rfind(json_text, "}")
    IN  IF whole.ok THEN whole.value
        ELSE IF start # 0 /\ end # 0
             THEN json_loads(SubSeq(json_text, start, end), members).value
             ELSE NoneValue

\* a response of the model: how the call ends, the text it carries and
\* what its token "m" stands for
Response(status, text, members) ==
    [status |-> status, text |-> text, members |-> members]
NoResponse == Response("none", <<>>, PlainMembers)
\* model is None, or the call raises: 500, quota, anything else (the
\* questions handed in come from the tables, whose options and answer
\* columns were written by json.dumps and decode)
Failures == {"no_model", "server_error", "quota", "exception"}

\* the dictionaries and values the functions return
Result(fn, error, with_raw, raw, value) ==
    [fn |-> fn, error |-> error, with_raw |-> with_raw, raw |-> raw, value |-> value]
NoCall == Result("none", FALSE, FALSE, <<>>, NoneValue)
Error(fn) == Result(fn, TRUE, FALSE, <<>>, NoneValue)
ErrorWithRaw(fn, raw) == Result(fn, TRUE, TRUE, raw, NoneValue)
Returned(fn, value) == Result(fn, FALSE, FALSE, <<>>, value)

\* a call that sends its request again after a server error or a used-up
\* quota
generate_content_again(r) ==
    IF r.status \in {"none", "no_model"} THEN 0
    ELSE IF r.status \in {"server_error", "quota"} THEN 2
    ELSE 1

\* the requests one call of generate_explanation, generate_modified_question
\* or analyze_difficulty sends: none without a model, and else the one
\* model.generate_content of its try block, whose except clauses return
generate_content(r) ==
    IF r.status \in {"none", "no_model"} THEN 0 ELSE 1

generate_explanation(r) ==
    IF r.status # "ok" THEN Error("generate_explanation")
    ELSE LET parsed_json == _clean_and_parse_json(r.text, r.members)
         IN  IF truthy(parsed_json)
             THEN Returned("generate_explanation", parsed_json)
             ELSE ErrorWithRaw("generate_explanation", r.text)

\* str() of a scalar
Digits == <<"1">>
py_str(e) ==
    CASE e.type = "string" -> e.s
      [] e.type = "number" -> Digits[e.n]
      [] e.type = "null"   -> "None"

generate_modified_question_as_parsed(r) ==
    IF r.status # "ok" THEN Error("generate_modified_question")
    ELSE LET parsed_json == _clean_and_parse_json(r.text, r.members)
         IN  IF ~truthy(parsed_json)
             THEN ErrorWithRaw("generate_modified_question", r.text)
             ELSE IF parsed_json.kind # "object" \/ ~(VariantKeys \subseteq parsed_json.keys)
             THEN Error("generate_modified_question")
             ELSE Returned("generate_modified_question", parsed_json)

\* a parsed value that is no dictionary raises in the key test and ends in
\* the except clause, as a call that raises does
generate_modified_question(r) ==
    IF r.status # "ok" THEN Error("generate_modified_question")
    ELSE LET parsed_json == _clean_and_parse_json(r.text, r.members)
         IN  IF ~truthy(parsed_json)
             THEN ErrorWithRaw("generate_modified_question", r.text)
             ELSE IF parsed_json.kind # "object" \/ ~(VariantKeys \subseteq parsed_json.keys)
             THEN Error("generate_modified_question")
             ELSE IF parsed_json.answer.type # "list"
             THEN Returned("generate_modified_question",
                           [parsed_json EXCEPT !.answer =
                               [type |-> "list", elem |-> Str(py_str(@.elem))]])
             ELSE Returned("generate_modified_question", parsed_json)

RECURSIVE lstrip(_)
lstrip(t) == IF t # <<>> /\ Head(t) = " " THEN lstrip(Tail(t)) ELSE t
RECURSIVE rstrip(_)
rstrip(t) == IF t # <<>> /\ t[Len(t)] = " " THEN rstrip(SubSeq(t, 1, Len(t) - 1)) ELSE t
strip(t) == rstrip(lstrip(t))

\* the value of analyze_difficulty as a text
Difficulty(fn, text) == Result(fn, FALSE, FALSE, text, NoneValue)

analyze_difficulty_as_answered(r) ==
    IF r.status # "ok" THEN Difficulty("analyze_difficulty", <<"medium">>)
    ELSE Difficulty("analyze_difficulty", strip(r.text))

analyze_difficulty(r) ==
    IF r.status # "ok" THEN Difficulty("analyze_difficulty", <<"medium">>)
    ELSE LET difficulty == strip(r.text)
         IN  IF difficulty \notin {<<d>> : d \in DifficultyLevels}
             THEN Difficulty("analyze_difficulty", <<"medium">>)
             ELSE Difficulty("analyze_difficulty", difficulty)

\* ------------------------------------------------- the explanation cache
\* json.dumps of a value json.loads gave: the text and what its "m" holds
json_dumps(v) ==
    [text |-> CASE v.kind = "number" -> <<"1">>
                [] v.kind = "object" /\ v.keys = {} -> <<"{", "}">>
                [] OTHER -> <<"{", "m", "}">>,
     members |-> Members(v.keys, v.answer)]

NoExplanations == [k \in {} |-> json_dumps(NoneValue)]

\* INSERT OR REPLACE on the primary key (question_id, question_type)
save_ai_explanation(tbl, q_id, q_type, explanation_json) ==
    [k \in DOMAIN tbl \cup {<<q_id, q_type>>} |->
        IF k = <<q_id, q_type>> THEN explanation_json ELSE tbl[k]]

get_ai_explanation_from_db(tbl, q_id, q_type) ==
    IF <<q_id, q_type>> \in DOMAIN tbl
    THEN json_loads(tbl[<<q_id, q_type>>].text, tbl[<<q_id, q_type>>].members).value
    ELSE NoneValue

delete_ai_explanation(tbl, q_id, q_type) ==
    [k \in DOMAIN tbl \ {<<q_id, q_type>>} |-> tbl[k]]

\* "error" not in x raises for a number
Raised(fn) == Result(fn, TRUE, FALSE, <<"TypeError">>, NoneValue)

\* what a request gives: the value returned, the table it leaves and the
\* response it used up, none when generate_explanation was not called
Request(result, tbl, r) == [result |-> result, tbl |-> tbl, response |-> r]

\* a part that saves whatever dictionary came back, an error as well
keep_explanation_always(tbl, q_id, q_type, new_explanation, r) ==
    IF ~new_explanation.error /\ new_explanation.value.kind # "object"
    THEN Request(Raised("get_ai_explanation"), tbl, r)
    ELSE Request(new_explanation,
                 save_ai_explanation(tbl, q_id, q_type,
                     json_dumps(IF new_explanation.error
                                THEN ObjectValue(Members({"error"}, NoAnswer))
                                ELSE new_explanation.value)), r)

\* the part after generate_explanation: "error" not in new_explanation
\* raises for a number, and what is no error is saved
keep_explanation(tbl, q_id, q_type, new_explanation, r) ==
    IF ~new_explanation.error /\ new_explanation.value.kind # "object"
    THEN Request(Raised("get_ai_explanation"), tbl, r)
    ELSE IF ~new_explanation.error /\ "error" \notin new_explanation.value.keys
    THEN Request(new_explanation,
                 save_ai_explanation(tbl, q_id, q_type, json_dumps(new_explanation.value)), r)
    ELSE Request(new_explanation, tbl, r)

get_ai_explanation_uncached(tbl, oq, mq, q_id, q_type, r) ==
    IF ~HasQuestion(oq, mq, Entry(q_id, q_type))
    THEN Request(Error("get_ai_explanation"), tbl, NoResponse)
    ELSE keep_explanation(tbl, q_id, q_type,
                          [generate_explanation(r) EXCEPT !.fn = "get_ai_explanation"], r)

get_ai_explanation(tbl, oq, mq, q_id, q_type, r) ==
    IF truthy(get_ai_explanation_from_db(tbl, q_id, q_type))
    THEN Request(Returned("get_ai_explanation", get_ai_explanation_from_db(tbl, q_id, q_type)),
                 tbl, NoResponse)
    ELSE IF ~HasQuestion(oq, mq, Entry(q_id, q_type))
    THEN Request(Error("get_ai_explanation"), tbl, NoResponse)
    ELSE keep_explanation(tbl, q_id, q_type,
                          [generate_explanation(r) EXCEPT !.fn = "get_ai_explanation"], r)

\* ---------------------------------------------------------------- Init
\* no results page in its loop
Idle == [pc |-> "idle", i |-> 0, user_answer |-> <<>>]

\* the parts that only some specifications move, as they are before any
\* browser has opened the application: no user, no file, no explanation
Untouched ==
    /\ explained_from = [k \in {} |-> 0]
    /\ grading = Idle
    /\ users = {}
    /\ browsers = [b \in {} |-> 0]
    /\ questions_final = <<>>

\* nobody signed in, empty tables, nothing rendered
NoSession ==
    /\ authentication_status = FALSE
    /\ username = ""
    /\ current_view = "home"
    /\ questions_to_solve = <<>>
    /\ current_question_index = 0
    /\ user_answers = EmptyDict
    /\ original_questions = [i \in {} |-> Question({}, NullAnswer)]
    /\ modified_questions = [i \in {} |-> Question({}, NullAnswer)]
    /\ modified_seq = 0
    /\ user_answers_tbl = <<>>
    /\ results_out = NoResults
    /\ notes_out = <<>>
    /\ analytics_out = NoAnalytics
    /\ last = NoClick

Init ==
    /\ NoSession
    /\ response = NoResponse
    /\ gemini_out = NoCall
    /\ ai_explanations = NoExplanations
    /\ Untouched

\* ------------------------------------------------- sign-in and sidebar
Role(u) == IF u = "admin" THEN "admin" ELSE "user"

\* main: the login button
Login(u) ==
    /\ ~authentication_status
    /\ Rerun([Cur EXCEPT !.auth = TRUE, !.user = u], NoClick)

\* run_main_app: the logout button
Logout ==
    /\ authentication_status
    /\ Rerun([Cur EXCEPT !.auth = FALSE, !.user = ""], NoClick)

\* run_main_app: a menu button; the button of the view already shown
\* changes nothing and the script runs on
Menu(view_key) ==
    /\ authentication_status
    /\ Rerun(IF current_view = view_key THEN Cur
             ELSE IF view_key = "home"
             THEN [Cur EXCEPT !.view = view_key, !.qs = <<>>, !.ans = EmptyDict, !.idx = 0]
             ELSE [Cur EXCEPT !.view = view_key],
             NoClick)

\* run_main_app: "reset current study" keeps current_view and drops the
\* quiz keys, which initialize_session_state fills in on the rerun
ResetStudy ==
    /\ authentication_status
    /\ Rerun([initialize_session_state(Cur) EXCEPT !.view = current_view],
             NoClick)

\* clear_all_modified_questions
clear_all_modified_questions(s) ==
    [s EXCEPT !.tbl = SelectSeq(@, LAMBDA r : ~(r.question_type = "modified")),
              !.mq = [i \in {} |-> Question({}, NullAnswer)]]

\* run_main_app: "delete all records" and st.session_state.clear()
DeleteAllRecords ==
    /\ authentication_status
    /\ LET s1 == [Cur EXCEPT !.tbl = SelectSeq(@, LAMBDA r : ~(r.username = username))]
           s2 == IF Role(username) = "admin" THEN clear_all_modified_questions(s1) ELSE s1
       IN Rerun([initialize_session_state(s2) EXCEPT !.auth = FALSE, !.user = ""],
                NoClick)

\* ---------------------------------------------------- starting a quiz
\* a head that leaves the session as it was
start_quiz_session_keeps(s) == s

\* the head of start_quiz_session
start_quiz_session(s) == [s EXCEPT !.qs = <<>>, !.ans = EmptyDict, !.idx = 0]

\* random.choices(ids, k=n): a draw that can repeat an id
SampleWithRepeats(ids, n) == [1..n -> ids]

\* random.sample(ids, n): the lists it can return
Sample(ids, n) == {p \in Arrangements(ids) : Len(p) = n}

\* the choices of the difficulty selectbox tried
DifficultyChoices == {"all", "easy"}

\* get_question_ids_by_difficulty
get_question_ids_by_difficulty(oq, difficulty) ==
    IF difficulty = "all" THEN DOMAIN oq
    ELSE {id \in DOMAIN oq : oq[id].difficulty = difficulty}

\* start_quiz_session("random quiz", "existing questions")
StartRandomOriginal(num_questions, difficulty) ==
    /\ authentication_status
    /\ current_view = "home"
    /\ LET all_ids == get_question_ids_by_difficulty(original_questions, difficulty)
           s0      == start_quiz_session(Cur)
           started == [Handler("start") EXCEPT !.route = "random_original",
                           !.asked = num_questions, !.difficulty = difficulty]
       IN IF all_ids # {}
          THEN \E selected_ids \in Sample(all_ids, Min(num_questions, Cardinality(all_ids))) :
                  Rerun([s0 EXCEPT !.qs = [i \in DOMAIN selected_ids |->
                                              Entry(selected_ids[i], "original")],
                                   !.view = "quiz"],
                        started)
          ELSE Rerun(s0, started)

\* a comprehension that stops at the first generation that failed
RECURSIVE SaveGeneratedUntilError(_, _, _, _)
SaveGeneratedUntilError(mq, mseq, gen, i) ==
    IF i > Len(gen) \/ gen[i].error THEN [mq |-> mq, mseq |-> mseq, new_ids |-> <<>>]
    ELSE LET new_id == mseq + 1
             rest   == SaveGeneratedUntilError(Put(mq, new_id, gen[i].q), new_id, gen, i + 1)
         IN [rest EXCEPT !.new_ids = <<new_id>> \o @]

\* save_modified_question for each generation that succeeded, in order
RECURSIVE SaveGenerated(_, _, _, _)
SaveGenerated(mq, mseq, gen, i) ==
    IF i > Len(gen) THEN [mq |-> mq, mseq |-> mseq, new_ids |-> <<>>]
    ELSE IF gen[i].error
         THEN SaveGenerated(mq, mseq, gen, i + 1)
         ELSE LET new_id == mseq + 1
                  rest   == SaveGenerated(Put(mq, new_id, gen[i].q), new_id, gen, i + 1)
              IN [rest EXCEPT !.new_ids = <<new_id>> \o @]

\* what generate_modified_question can return for n questions
Generations(n) ==
    [1..n -> {[error |-> TRUE, q |-> Question({}, NullAnswer)]}
                 \cup {[error |-> FALSE, q |-> g] : g \in GeneratedQuestions}]

\* start_quiz_session("random quiz", "AI variants")
StartRandomModified(num_questions) ==
    /\ authentication_status
    /\ current_view = "home"
    /\ LET original_ids == DOMAIN original_questions
           s0           == start_quiz_session(Cur)
           started      == [Handler("start") EXCEPT !.route = "random_modified",
                                !.asked = num_questions]
       IN IF original_ids # {}
          THEN \E s_ids \in Sample(original_ids, Min(num_questions, Cardinality(original_ids))) :
               \E gen \in Generations(Len(s_ids)) :
                  LET r  == SaveGenerated(modified_questions, modified_seq, gen, 1)
                      s1 == [s0 EXCEPT !.mq = r.mq, !.mseq = r.mseq]
                      l  == [started EXCEPT !.calls = Len(gen),
                                !.generated = Cardinality({i \in DOMAIN gen : ~gen[i].error})]
                  IN /\ r.mseq <= MaxMod
                     /\ IF r.new_ids # <<>>
                        THEN Rerun([s1 EXCEPT !.qs = [i \in DOMAIN r.new_ids |->
                                                        Entry(r.new_ids[i], "modified")],
                                              !.view = "quiz"],
                                   l)
                        ELSE Rerun(s1, l)
          ELSE Rerun(s0, started)

\* start_quiz_session("solve by id")
StartById(question_id) ==
    /\ authentication_status
    /\ current_view = "home"
    /\ LET s0 == start_quiz_session(Cur)
       IN IF question_id \in DOMAIN original_questions
          THEN Rerun([s0 EXCEPT !.qs = <<Entry(question_id, "original")>>, !.view = "quiz"],
                     [Handler("start") EXCEPT !.route = "by_id", !.q_id = question_id])
          ELSE Rerun(s0, [Handler("start") EXCEPT !.route = "by_id", !.q_id = question_id])

\* render_notes_page: the list built from the rows; q['question_id'] on a
\* row that has no such column raises IndexError before anything is assigned
RetryList(wrong_answers) ==
    IF \A i \in DOMAIN wrong_answers :
          {"question_id", "question_type"} \subseteq DOMAIN wrong_answers[i]
    THEN [raised |-> FALSE,
          qs |-> [i \in DOMAIN wrong_answers |->
                     Entry(wrong_answers[i].question_id, wrong_answers[i].question_type)]]
    ELSE [raised |-> TRUE, qs |-> <<>>]

\* render_notes_page: "retry the wrong questions"
RetryWrong ==
    /\ authentication_status
    /\ current_view = "notes"
    /\ \E wrong_answers \in get_wrong_answers(username, user_answers_tbl,
                                              original_questions, modified_questions) :
          /\ wrong_answers # <<>>
          /\ LET r == RetryList(wrong_answers)
             IN IF r.raised
                THEN Commit(Cur, NoResults, wrong_answers, NoAnalytics, Handler("retry_wrong"))
                ELSE Rerun([Cur EXCEPT !.qs = r.qs, !.idx = 0, !.ans = EmptyDict,
                                       !.view = "quiz"],
                           Handler("retry_wrong"))

\* ------------------------------------------------------- the quiz page
\* render_quiz_page draws the question and its buttons
QuestionShown ==
    /\ authentication_status
    /\ current_view = "quiz"
    /\ questions_to_solve # <<>>
    /\ HasQuestion(original_questions, modified_questions,
                   questions_to_solve[current_question_index + 1])

CurrentQuestion ==
    get_question_by_id(original_questions, modified_questions,
                       questions_to_solve[current_question_index + 1])

\* an option button: the on_click callback, then the script runs
Select(choice_key) ==
    /\ QuestionShown
    /\ choice_key \in shown_options(CurrentQuestion)
    /\ LET idx    == current_question_index
           chosen == Get(user_answers, idx)
           second == last.op = "select" /\ last.label = choice_key /\ ~last.repeat
       IN Rerun([Cur EXCEPT !.ans = Put(@, idx,
                     _handle_choice_selection(chosen, choice_key,
                                              answer_count(CurrentQuestion)))],
                [Handler("select") EXCEPT !.label = choice_key,
                     !.before = IF second THEN last.before ELSE chosen,
                     !.repeat = second])

\* a "previous" button that wraps around at index 0
PrevWraps ==
    /\ QuestionShown
    /\ Rerun([Cur EXCEPT !.idx = (@ - 1) % Len(questions_to_solve)],
             [Handler("prev") EXCEPT !.from = current_question_index])

\* the "previous" button, disabled at index 0
Prev ==
    /\ QuestionShown
    /\ ~(current_question_index = 0)
    /\ Rerun([Cur EXCEPT !.idx = @ - 1],
             [Handler("prev") EXCEPT !.from = current_question_index])

\* a "next" button that drops what was chosen so far
NextForgets ==
    /\ QuestionShown
    /\ current_question_index < Len(questions_to_solve) - 1
    /\ Rerun([Cur EXCEPT !.idx = @ + 1, !.ans = EmptyDict],
             [Handler("next") EXCEPT !.from = current_question_index])

\* the "next" button, drawn while idx < total - 1
NextQuestion ==
    /\ QuestionShown
    /\ current_question_index < Len(questions_to_solve) - 1
    /\ Rerun([Cur EXCEPT !.idx = @ + 1],
             [Handler("next") EXCEPT !.from = current_question_index])

\* the "show results" button, drawn on the last question
ShowResults ==
    /\ QuestionShown
    /\ ~(current_question_index < Len(questions_to_solve) - 1)
    /\ Rerun([Cur EXCEPT !.view = "results"], NoClick)

\* render_results_page: the run of the click draws the results first, then
\* the "new quiz" button sets the view and reruns
NewQuiz ==
    /\ authentication_status
    /\ current_view = "results"
    /\ \E ts \in Stamps(user_answers_tbl) :
          LET r == render_results_page(Cur, ts)
          IN Rerun([r.s EXCEPT !.view = "home"], NoClick)

\* ------------------------------------------- the tables, from any session
Env(s) == Commit(s, NoResults, <<>>, NoAnalytics, NoClick)

\* load_original_questions_from_json
load_original_questions_from_json(s, questions_with_difficulty) ==
    [s EXCEPT !.oq = questions_with_difficulty]

LoadJson ==
    \E file \in FileInputs :
        Env(load_original_questions_from_json(Cur, file))

\* clear_all_original_questions
clear_all_original_questions(s) ==
    [s EXCEPT !.tbl = SelectSeq(@, LAMBDA r : ~(r.question_type = "original")),
              !.oq = [i \in {} |-> Question({}, NullAnswer)]]

ClearAllOriginal == Env(clear_all_original_questions(Cur))

\* delete_modified_question
delete_modified_question(s, question_id) ==
    [s EXCEPT !.tbl = SelectSeq(@, LAMBDA r : ~(r.question_id = question_id
                                               /\ r.question_type = "modified")),
              !.mq = [i \in DOMAIN @ \ {question_id} |-> @[i]]]

DeleteModified ==
    \E question_id \in DOMAIN modified_questions :
        Env(delete_modified_question(Cur, question_id))

\* an UPDATE that marks the rows as correct where the DELETE is
delete_wrong_answer_as_update(s, user, question_id, question_type) ==
    [s EXCEPT !.tbl = [i \in DOMAIN @ |->
        IF /\ @[i].question_id = question_id
           /\ @[i].question_type = question_type
           /\ @[i].username = user
        THEN [@[i] EXCEPT !.is_correct = TRUE]
        ELSE @[i]]]

\* delete_wrong_answer
delete_wrong_answer(s, user, question_id, question_type) ==
    [s EXCEPT !.tbl = SelectSeq(@, LAMBDA r : ~(r.question_id = question_id
                                               /\ r.question_type = question_type
                                               /\ r.username = user))]

DeleteWrongAnswer ==
    \E u \in Users :
    \E g \in WrongGroups(u, user_answers_tbl, original_questions, modified_questions) :
        Env(delete_wrong_answer(Cur, u, g.id, g.question_type))

\* ---------------------------------------------------------------- Next
Next ==
    \/ \E u \in Users : Login(u)
    \/ Logout
    \/ \E v \in menu_items : Menu(v)
    \/ ResetStudy
    \/ DeleteAllRecords
    \/ \E n \in 1..(MaxOrig + 1), d \in DifficultyChoices : StartRandomOriginal(n, d)
    \/ \E n \in 1..(MaxOrig + 1) : StartRandomModified(n)
    \/ \E id \in 1..(MaxOrig + 1) : StartById(id)
    \/ RetryWrong
    \/ \E l \in Labels : Select(l)
    \/ Prev
    \/ NextQuestion
    \/ ShowResults
    \/ NewQuiz
    \/ LoadJson
    \/ ClearAllOriginal
    \/ DeleteModified
    \/ DeleteWrongAnswer

Spec == Init /\ [][Next]_vars

\* ------------------------------------- the queries on a user_answers log
\* the logs save_user_answer can have written: rows in rowid order, the
\* seconds never going back
LogUsers == Users \cup {"u2"}

LogRows ==
    {save_user_answer(u, Entry(id, "original"), <<>>, c, t) :
        u \in LogUsers, id \in 1..MaxOrig, c \in BOOLEAN, t \in 1..MaxClock}

Logs ==
    {log \in UNION {[1..n -> LogRows] : n \in 0..MaxLog} :
        \A i, j \in DOMAIN log : i < j => log[i].solved_at <= log[j].solved_at}

\* a signed-in session on the notes page over a loaded store and any log
InitQuery ==
    /\ authentication_status = TRUE
    /\ username \in Users
    /\ current_view = "notes"
    /\ questions_to_solve = <<>>
    /\ current_question_index = 0
    /\ user_answers = EmptyDict
    /\ original_questions = [id \in 1..MaxOrig |-> Question(Labels, ListAnswer(<<1>>))]
    /\ modified_questions = [i \in {} |-> Question({}, NullAnswer)]
    /\ modified_seq = 0
    /\ user_answers_tbl \in Logs
    /\ results_out = NoResults
    /\ notes_out = <<>>
    /\ analytics_out = NoAnalytics
    /\ response = NoResponse
    /\ gemini_out = NoCall
    /\ ai_explanations = NoExplanations
    /\ Untouched
    /\ last = NoClick

NextQuery == \E v \in menu_items : Menu(v)

SpecQuery == InitQuery /\ [][NextQuery]_vars

\* ------------------------------------ the analytics page on a longer log
MaxTopIds == 6   \* original questions with rows in the log
MaxMiss   == 2   \* incorrect rows of the user per question

\* n rows of one user on one question
RECURSIVE Repeated(_, _)
Repeated(row, n) == IF n = 0 THEN <<>> ELSE <<row>> \o Repeated(row, n - 1)

\* the log of a user who missed question id misses[id] times, entered from
\* the highest id down, after an incorrect row of another user and a correct
\* row of the user
RECURSIVE MissLog(_, _, _)
MissLog(user, misses, id) ==
    IF id = 0 THEN <<>>
    ELSE Repeated(save_user_answer(user, Entry(id, "original"), <<>>, FALSE, 1), misses[id])
            \o MissLog(user, misses, id - 1)

InitTop ==
    /\ authentication_status = TRUE
    /\ username \in Users
    /\ current_view = "analytics"
    /\ questions_to_solve = <<>>
    /\ current_question_index = 0
    /\ user_answers = EmptyDict
    /\ original_questions = [id \in 1..MaxTopIds |-> Question(Labels, ListAnswer(<<1>>))]
    /\ modified_questions = [i \in {} |-> Question({}, NullAnswer)]
    /\ modified_seq = 0
    /\ \E misses \in [1..MaxTopIds -> 0..MaxMiss] :
          user_answers_tbl =
              <<save_user_answer("u2", Entry(1, "original"), <<>>, FALSE, 1),
                save_user_answer(username, Entry(1, "original"), <<>>, TRUE, 1)>>
                  \o MissLog(username, misses, MaxTopIds)
    /\ results_out = NoResults
    /\ notes_out = <<>>
    /\ analytics_out = NoAnalytics
    /\ response = NoResponse
    /\ gemini_out = NoCall
    /\ ai_explanations = NoExplanations
    /\ Untouched
    /\ last = NoClick

\* the menu button of the analytics page draws the page again
NextTop == Menu("analytics")

SpecTop == InitTop /\ [][NextTop]_vars

\* ----------------------------------------- gemini_handler on any response
Texts(tokens, n) == UNION {[1..k -> tokens] : k \in 0..n}

\* the responses tried: every short text over the JSON tokens, every object
\* a variant may hold inside and outside a fence, every short difficulty
\* answer, and every way the call can fail
InitGemini ==
    /\ NoSession
    /\ \/ \E t \in Texts(JsonTokens, MaxText) :
              response = Response("ok", t, PlainMembers)
       \/ \E t \in {<<"{", "m", "}">>, <<FenceJson, "{", "m", "}", Fence>>},
             m \in MemberInputs :
              response = Response("ok", t, m)
       \/ \E t \in Texts(DifficultyTokens, MaxWords) :
              response = Response("ok", t, PlainMembers)
       \/ \E f \in Failures : response = Response(f, <<>>, PlainMembers)
    /\ gemini_out = NoCall
    /\ ai_explanations = NoExplanations
    /\ Untouched

Call(result, requests) ==
    /\ gemini_out' = result
    /\ last' = [Handler(result.fn) EXCEPT !.requests = requests]
    /\ UNCHANGED <<session, tables, results_out, notes_out, analytics_out, response,
                   ai_explanations, explained_from, beside>>

CleanAndParse ==
    /\ response.status = "ok"
    /\ Call(Returned("_clean_and_parse_json",
                     _clean_and_parse_json(response.text, response.members)), 0)
GenerateExplanation ==
    Call(generate_explanation(response), generate_content(response))
GenerateModifiedQuestion ==
    Call(generate_modified_question(response), generate_content(response))
AnalyzeDifficulty ==
    Call(analyze_difficulty(response), generate_content(response))

NextGemini ==
    \/ CleanAndParse
    \/ GenerateExplanation
    \/ GenerateModifiedQuestion
    \/ AnalyzeDifficulty

SpecGemini == InitGemini /\ [][NextGemini]_vars

\* --------------------------------------- explanations asked for and deleted
\* the responses a request for an explanation may get: an explanation bare
\* and in a fence, an object with an "error" key, an empty object, a
\* number, a text that does not decode, and the failures of the call
ExplainResponses ==
    {Response("ok", <<"{", "m", "}">>, Members({"analogy"}, NoAnswer)),
     Response("ok", <<FenceJson, "{", "m", "}", Fence>>, Members({"analogy", "core_concepts"}, NoAnswer)),
     Response("ok", <<"{", "m", "}">>, Members({"error"}, NoAnswer)),
     Response("ok", <<"{", "}">>, PlainMembers),
     Response("ok", <<"1">>, PlainMembers),
     Response("ok", <<"m">>, PlainMembers)}
        \cup {Response(f, <<>>, PlainMembers) : f \in Failures}

\* a signed-in user on the notes page with every question of the store
\* answered wrongly once, one after the other
InitExplain ==
    /\ authentication_status = TRUE
    /\ username \in Users
    /\ current_view = "notes"
    /\ questions_to_solve = <<>>
    /\ current_question_index = 0
    /\ user_answers = EmptyDict
    /\ original_questions = [id \in 1..MaxOrig |-> Question(Labels, ListAnswer(<<1>>))]
    /\ modified_questions = [i \in {} |-> Question({}, NullAnswer)]
    /\ modified_seq = 0
    /\ user_answers_tbl =
           [id \in 1..MaxOrig |-> save_user_answer(username, Entry(id, "original"), <<>>, FALSE,
                                                Min(id, MaxClock))]
    /\ results_out = NoResults
    /\ notes_out = <<>>
    /\ analytics_out = NoAnalytics
    /\ response = NoResponse
    /\ gemini_out = NoCall
    /\ ai_explanations = NoExplanations
    /\ Untouched
    /\ last = NoClick

\* what a request for the explanation of question q_info leaves behind; an
\* explanation that was saved was generated from the question as it is now
Requested(exp, q_info) ==
    /\ response' = exp.response
    /\ gemini_out' = exp.result
    /\ ai_explanations' = exp.tbl
    /\ explained_from' =
           [k \in DOMAIN exp.tbl |->
               IF k = <<q_info.id, q_info.type>> /\ k \notin DOMAIN ai_explanations
               THEN get_question_by_id(original_questions, modified_questions, q_info)
               ELSE explained_from[k]]

\* render_notes_page: the explanation button of a row listed; the script
\* runs again and, drawing that row, asks for the explanation
Explain ==
    /\ authentication_status
    /\ current_view = "notes"
    /\ \E g \in WrongGroups(username, user_answers_tbl, original_questions, modified_questions),
          r \in ExplainResponses :
          /\ RerunSession(Cur, [Handler("explain") EXCEPT !.q_id = g.id,
                                                          !.q_type = g.question_type])
          /\ Requested(get_ai_explanation(ai_explanations, original_questions,
                                          modified_questions, g.id, g.question_type, r),
                       Entry(g.id, g.question_type))

\* render_management_page: the delete button of a stored explanation whose
\* question is still in the store
DeleteExplanation ==
    \E k \in DOMAIN ai_explanations :
        /\ HasQuestion(original_questions, modified_questions, Entry(k[1], k[2]))
        /\ CommitSession(Cur, NoResults, <<>>, NoAnalytics, NoClick)
        /\ ai_explanations' = delete_ai_explanation(ai_explanations, k[1], k[2])
        /\ explained_from' = [j \in DOMAIN explained_from \ {k} |-> explained_from[j]]
        /\ UNCHANGED <<response, gemini_out>>

NextExplain ==
    \/ Explain
    \/ DeleteExplanation
    \/ \E v \in menu_items : Menu(v)

SpecExplain == InitExplain /\ [][NextExplain]_vars

\* ------------------------------------------------------------ the claims
StoredAnswer(e) == get_question_by_id(original_questions, modified_questions, e).answer
Present(e) == HasQuestion(original_questions, modified_questions, e)
Chosen(i) == ToSet(Get(user_answers, i))

\* ------------------------------ a results page drawn while rows are deleted
MaxPass == 2   \* entries of the quiz whose results page is drawn

RaceEntries == {Entry(1, "modified"), Entry(2, "modified"), Entry(1, "original")}

\* a signed-in user whose quiz on stored questions has ended, before the
\* results page is drawn; the log is empty and every entry is in the store
InitRace ==
    /\ authentication_status = TRUE
    /\ username = "u1"
    /\ current_view = "results"
    /\ questions_to_solve \in UNION {[1..n -> RaceEntries] : n \in 1..MaxPass}
    /\ current_question_index = 0
    /\ user_answers \in [0..(Len(questions_to_solve) - 1) -> {<<>>, <<1>>}]
    /\ original_questions = [i \in {1} |-> Question(Labels, ListAnswer(<<1>>))]
    /\ modified_questions = [i \in {1, 2} |-> Question(Labels, ListAnswer(<<1>>))]
    /\ modified_seq = 2
    /\ user_answers_tbl = <<>>
    /\ results_out = NoResults
    /\ notes_out = <<>>
    /\ analytics_out = NoAnalytics
    /\ last = NoClick
    /\ response = NoResponse
    /\ gemini_out = NoCall
    /\ ai_explanations = NoExplanations
    /\ Untouched

\* a step of the loop of display_results: it changes the place in the loop
\* and the log, and nothing else
PassStep(g, tbl) ==
    /\ grading' = g
    /\ user_answers_tbl' = tbl
    /\ UNCHANGED <<session, original_questions, modified_questions, modified_seq,
                   results_out, notes_out, analytics_out, gemini,
                   users, browsers, questions_final, last>>

\* the script starts to draw the results page
BeginPass ==
    /\ authentication_status /\ current_view = "results"
    /\ grading.pc = "idle"
    /\ Len(user_answers_tbl) + Len(questions_to_solve) <= MaxPass
    /\ PassStep([Idle EXCEPT !.pc = "read"], user_answers_tbl)

\* get_question_by_id on its own connection, and the grading of the entry:
\* a question that is gone or answered correctly moves the loop on, an
\* incorrect answer is kept for save_user_answer
ReadQuestion ==
    /\ grading.pc = "read"
    /\ grading.i < Len(questions_to_solve)
    /\ LET q_info == questions_to_solve[grading.i + 1]
           user_answer == sorted(Get(user_answers, grading.i))
       IN  IF ~HasQuestion(original_questions, modified_questions, q_info)
           THEN PassStep([grading EXCEPT !.i = @ + 1], user_answers_tbl)
           ELSE IF is_correct(user_answer,
                              get_question_by_id(original_questions, modified_questions, q_info))
           THEN PassStep([grading EXCEPT !.i = @ + 1], user_answers_tbl)
           ELSE PassStep([grading EXCEPT !.pc = "insert", !.user_answer = user_answer],
                         user_answers_tbl)

\* save_user_answer on a connection of its own: the INSERT and its commit
InsertAnswer ==
    /\ grading.pc = "insert"
    /\ \E ts \in Stamps(user_answers_tbl) :
           PassStep([grading EXCEPT !.pc = "read", !.i = @ + 1, !.user_answer = <<>>],
                    Append(user_answers_tbl,
                           save_user_answer(username, questions_to_solve[grading.i + 1],
                                            grading.user_answer, FALSE, ts)))

\* the loop is through
EndPass ==
    /\ grading.pc = "read"
    /\ grading.i = Len(questions_to_solve)
    /\ PassStep(Idle, user_answers_tbl)

\* the administrator, in a session of their own: "delete all records"
\* empties modified_questions and the rows that name them
ClearAllModified == Env(clear_all_modified_questions(Cur))

NextRace ==
    \/ BeginPass
    \/ ReadQuestion
    \/ InsertAnswer
    \/ EndPass
    \/ DeleteModified
    \/ ClearAllModified

SpecRace == InitRace /\ [][NextRace]_vars

\* --------------------------------------------- accounts, from any browser
MaxBrowsers == 2   \* browser sessions open on the app

MASTER_ACCOUNT_USERNAME == "admin"
Browsers == 1..MaxBrowsers
\* the user names typed into the sign-up form
SignupNames == {MASTER_ACCOUNT_USERNAME, "u1"}

UserRow(name_of_user, full_name, password, role) ==
    [username |-> name_of_user, name |-> full_name, password |-> password, role |-> role]

\* fetch_all_users: all_user_info, keyed by username
fetch_all_users(tbl) ==
    [u \in {r.username : r \in tbl} |-> CHOOSE r \in tbl : r.username = u]

\* add_new_user: the INSERT fails on a username the table holds
add_new_user(tbl, name_of_user, full_name, password) ==
    IF \E r \in tbl : r.username = name_of_user THEN tbl
    ELSE tbl \cup {UserRow(name_of_user, full_name, password, "user")}

\* delete_user, on the table users
delete_user(tbl, name_of_user) == {r \in tbl : r.username # name_of_user}

\* an INSERT that leaves the role to the default of the column
ensure_master_account_as_user(tbl, name_of_user, full_name, password) ==
    {r \in tbl : r.username # name_of_user}
        \cup {UserRow(name_of_user, full_name, password, "user")}

\* ensure_master_account: INSERT OR REPLACE with role 'admin'
ensure_master_account(tbl, name_of_user, full_name, password) ==
    {r \in tbl : r.username # name_of_user}
        \cup {UserRow(name_of_user, full_name, password, "admin")}

\* a browser session before its first run of the script
NewBrowser == [pc |-> "new", user |-> "", user_to_delete |-> ""]

\* a new database and browsers that have not opened the app
InitUsers ==
    /\ NoSession
    /\ response = NoResponse
    /\ gemini_out = NoCall
    /\ ai_explanations = NoExplanations
    /\ explained_from = [k \in {} |-> 0]
    /\ grading = Idle
    /\ users = {}
    /\ browsers = [b \in Browsers |-> NewBrowser]
    /\ questions_final = <<>>

\* a step of the script in browser b that leaves the table users as tbl
UsersStep(tbl, b, browser, l) ==
    /\ users' = tbl
    /\ browsers' = [browsers EXCEPT ![b] = browser]
    /\ last' = l
    /\ UNCHANGED <<session, original_questions, modified_questions, modified_seq,
                   results_out, notes_out, analytics_out, gemini,
                   grading, questions_final>>

\* run_main_app: is_admin, from the table as the run finds it
is_admin(b) ==
    /\ browsers[b].user \in DOMAIN fetch_all_users(users)
    /\ fetch_all_users(users)[browsers[b].user].role = "admin"

\* main, without db_setup_done: the tables are set up and the users read
StartupCheck(b) ==
    /\ browsers[b].pc = "new"
    /\ user_answers_tbl' = user_answers_tbl
    /\ UsersStep(users, b,
                 [browsers[b] EXCEPT !.pc =
                     IF MASTER_ACCOUNT_USERNAME \notin DOMAIN fetch_all_users(users)
                     THEN "provision" ELSE "ready"],
                 Handler("startup"))

\* main: ensure_master_account, and db_setup_done
Provision(b) ==
    /\ browsers[b].pc = "provision"
    /\ user_answers_tbl' = user_answers_tbl
    /\ UsersStep(ensure_master_account(users, MASTER_ACCOUNT_USERNAME, "Master Admin", "master"),
                 b, [browsers[b] EXCEPT !.pc = "ready"], Handler("provision"))

\* main: the login button, with the password of the account
LoginAs(b, u) ==
    /\ browsers[b].pc = "ready" /\ browsers[b].user = ""
    /\ u \in DOMAIN fetch_all_users(users)
    /\ user_answers_tbl' = user_answers_tbl
    /\ UsersStep(users, b, [browsers[b] EXCEPT !.user = u], Handler("login"))

\* run_main_app: the logout button
LogoutOf(b) ==
    /\ browsers[b].pc = "ready" /\ browsers[b].user # ""
    /\ user_answers_tbl' = user_answers_tbl
    /\ UsersStep(users, b, [browsers[b] EXCEPT !.user = ""], Handler("logout"))

\* main: the sign-up button with every field filled in
Signup(b, reg_user) ==
    /\ browsers[b].pc = "ready" /\ browsers[b].user = ""
    /\ user_answers_tbl' = user_answers_tbl
    /\ UsersStep(IF reg_user = MASTER_ACCOUNT_USERNAME THEN users
                 ELSE IF reg_user \in DOMAIN fetch_all_users(users) THEN users
                 ELSE add_new_user(users, reg_user, "typed", "typed"),
                 b, browsers[b], [Handler("signup") EXCEPT !.name = reg_user])

\* render_management_page, user list: the delete button of a listed account
ChooseUser(b, u) ==
    /\ browsers[b].pc = "ready" /\ browsers[b].user # ""
    /\ is_admin(b)
    /\ u \in DOMAIN fetch_all_users(users)
    /\ u # MASTER_ACCOUNT_USERNAME
    /\ user_answers_tbl' = user_answers_tbl
    /\ UsersStep(users, b, [browsers[b] EXCEPT !.user_to_delete = u], Handler("choose_user"))

\* render_management_page: the confirmation in the modal
ConfirmDelete(b) ==
    /\ browsers[b].pc = "ready" /\ browsers[b].user # ""
    /\ is_admin(b)
    /\ browsers[b].user_to_delete # ""
    /\ user_answers_tbl' =
           SelectSeq(user_answers_tbl, LAMBDA r : r.username # browsers[b].user_to_delete)
    /\ UsersStep(delete_user(users, browsers[b].user_to_delete), b,
                 [browsers[b] EXCEPT !.user_to_delete = ""],
                 [Handler("delete_user") EXCEPT !.name = browsers[b].user_to_delete])

\* render_management_page: withdrawal, offered to who is no administrator;
\* st.session_state.clear() drops db_setup_done as well
Withdraw(b) ==
    /\ browsers[b].pc = "ready" /\ browsers[b].user # ""
    /\ ~is_admin(b)
    /\ user_answers_tbl' =
           SelectSeq(user_answers_tbl, LAMBDA r : r.username # browsers[b].user)
    /\ UsersStep(delete_user(users, browsers[b].user), b, NewBrowser,
                 [Handler("withdraw") EXCEPT !.name = browsers[b].user])

NextUsers ==
    \E b \in Browsers :
        \/ StartupCheck(b)
        \/ Provision(b)
        \/ \E u \in SignupNames : LoginAs(b, u)
        \/ LogoutOf(b)
        \/ \E u \in SignupNames : Signup(b, u)
        \/ \E u \in SignupNames : ChooseUser(b, u)
        \/ ConfirmDelete(b)
        \/ Withdraw(b)

SpecUsers == InitUsers /\ [][NextUsers]_vars

\* ------------------------------------ the original questions, managed
\* A row with the columns the management page writes: the question text,
\* the options (their labels), the answer, the difficulty and the media
\* reference ("none" for NULL; media_type goes with media_url).
Row(text, o, a, d, media) ==
    [question |-> text, options |-> o, answer |-> a, difficulty |-> d, media_url |-> media]

\* the dictionary export and the file hold for a row
Dict(id, row) ==
    [id |-> id, question |-> row.question, options |-> row.options, answer |-> row.answer,
     difficulty |-> row.difficulty, media_url |-> row.media_url]

\* the ids of a table in ascending order (ORDER BY id ASC)
Ascend(S) == sorted(CHOOSE p \in Perms(S) : TRUE)

\* export_questions_to_json_format: one dictionary per row, by id
export_questions_to_json_format(oq) ==
    [i \in 1..Cardinality(DOMAIN oq) |-> Dict(Ascend(DOMAIN oq)[i], oq[Ascend(DOMAIN oq)[i]])]

\* the INSERT loop of load_original_questions_from_json: the row each
\* dictionary of the list becomes, under its id
inserted(questions) ==
    [id \in {questions[i].id : i \in DOMAIN questions} |->
        LET q == questions[CHOOSE i \in DOMAIN questions : questions[i].id = id]
        IN  Row(q.question, q.options, q.answer, q.difficulty, q.media_url)]

\* the handler of the load button: every question gets the level
\* analyze_difficulty gave for it, or 'medium' without the analysis
with_difficulty(questions, analyze_option, levels) ==
    [i \in DOMAIN questions |->
        [questions[i] EXCEPT !.difficulty = IF analyze_option THEN levels[i] ELSE "medium"]]

\* add_new_original_question: the row goes under MAX(id) + 1
add_new_original_question(s, row) ==
    [s EXCEPT !.oq = Put(@, MaxOf(DOMAIN @) + 1, row)]

\* update_original_question
update_original_question(s, q_id, row) ==
    [s EXCEPT !.oq = [i \in DOMAIN @ |-> IF i = q_id THEN row ELSE @[i]]]

\* a step of the management page that runs the script again
ManageStep(s, file, l) ==
    /\ authentication_status /\ current_view = "manage"
    /\ \E ts \in {0} :
          LET r == run_main_app(s, ts)
          IN  /\ authentication_status' = r.s.auth
              /\ username' = r.s.user
              /\ current_view' = r.s.view
              /\ questions_to_solve' = r.s.qs
              /\ current_question_index' = r.s.idx
              /\ user_answers' = r.s.ans
              /\ original_questions' = r.s.oq
              /\ modified_questions' = r.s.mq
              /\ modified_seq' = r.s.mseq
              /\ user_answers_tbl' = r.s.tbl
              /\ results_out' = r.out
    /\ notes_out' = <<>>
    /\ analytics_out' = NoAnalytics
    /\ questions_final' = file
    /\ last' = l
    /\ UNCHANGED <<gemini, grading, users, browsers>>

\* "load the questions from JSON": an empty file is refused, and else the
\* table is replaced by the questions of the file with their difficulty set
LoadFile(analyze_option, levels) ==
    /\ Len(levels) = Len(questions_final)
    /\ ManageStep(IF questions_final = <<>> THEN Cur
                  ELSE load_original_questions_from_json(Cur,
                           inserted(with_difficulty(questions_final, analyze_option, levels))),
                  questions_final,
                  [Handler("load") EXCEPT !.repeat = analyze_option])

\* "overwrite the server file": the export goes to questions_final.json
OverwriteFile ==
    ManageStep(Cur, export_questions_to_json_format(original_questions), Handler("overwrite"))

\* "delete all original questions"
ClearOriginals ==
    ManageStep(clear_all_original_questions(Cur), questions_final, Handler("clear"))

\* the form of the add tab: a question text, the options with a text, the
\* answer picked among them and a difficulty; a form without a text,
\* without an option or without an answer is refused
AddQuestion(row) ==
    /\ row.answer.kind = "list"
    /\ ToSet(row.answer.items) \subseteq row.options
    /\ MaxOf(DOMAIN original_questions) < MaxOrig
    /\ ManageStep(IF row.question = "" \/ row.options = {} \/ row.answer.items = <<>>
                  THEN Cur
                  ELSE add_new_original_question(Cur, row),
                  questions_final, Handler("add"))

\* the form of the edit tab for a stored question: the text, the answer
\* picked among its options and the difficulty are saved as typed
EditQuestion(edit_id, text, answer_list, difficulty) ==
    /\ edit_id \in DOMAIN original_questions
    /\ ToSet(answer_list) \subseteq original_questions[edit_id].options
    /\ ManageStep(update_original_question(Cur, edit_id,
                      Row(text, original_questions[edit_id].options, ListAnswer(answer_list),
                          difficulty, original_questions[edit_id].media_url)),
                  questions_final,
                  [Handler("edit") EXCEPT !.q_id = edit_id, !.q_type = "original"])

\* what the edit form is saved with: another text, and the answer emptied
\* with the level set to easy
EditInputs ==
    {[text |-> "q2", answer |-> <<1>>, difficulty |-> "medium"],
     [text |-> "q1", answer |-> <<>>, difficulty |-> "easy"]}
\* the levels analyze_difficulty gives for the n questions of a file, when
\* the analysis is asked for
Levels(analyze_option, n) ==
    IF analyze_option THEN [1..n -> {"easy", "medium"}] ELSE {[i \in 1..n |-> "medium"]}
\* the rows the add form is filled in with: one option, two options, no
\* answer picked
AddInputs ==
    {Row("q2", {1}, ListAnswer(<<1>>), "easy", "none"),
     Row("q2", Labels, ListAnswer(<<2>>), "medium", "file.png"),
     Row("q2", Labels, ListAnswer(<<>>), "medium", "none")}
\* the file parser.py wrote, and no file content at all
SeedFiles ==
    {<<>>,
     <<Dict(1, Row("q1", Labels, ListAnswer(<<>>), "medium", "none"))>>}

\* a signed-in user on the management page of a store with MaxOrig
\* questions of either difficulty
InitManage ==
    /\ authentication_status = TRUE
    /\ username = "u1"
    /\ current_view = "manage"
    /\ questions_to_solve = <<>>
    /\ current_question_index = 0
    /\ user_answers = EmptyDict
    /\ original_questions \in [1..MaxOrig -> {Row("q1", Labels, ListAnswer(<<1>>), d, "none") :
                                                d \in {"easy", "medium"}}]
    /\ modified_questions = [i \in {} |-> Question({}, NullAnswer)]
    /\ modified_seq = 0
    /\ user_answers_tbl = <<>>
    /\ results_out = NoResults
    /\ notes_out = <<>>
    /\ analytics_out = NoAnalytics
    /\ response = NoResponse
    /\ gemini_out = NoCall
    /\ ai_explanations = NoExplanations
    /\ explained_from = [k \in {} |-> 0]
    /\ grading = Idle
    /\ users = {}
    /\ browsers = [b \in {} |-> 0]
    /\ questions_final \in SeedFiles
    /\ last = NoClick

NextManage ==
    \/ \E a \in BOOLEAN : \E levels \in Levels(a, Len(questions_final)) : LoadFile(a, levels)
    \/ OverwriteFile
    \/ ClearOriginals
    \/ \E row \in AddInputs : AddQuestion(row)
    \/ \E id \in 1..MaxOrig, e \in EditInputs : EditQuestion(id, e.text, e.answer, e.difficulty)

SpecManage == InitManage /\ [][NextManage]_vars

\* ------------------------- explanations asked for while questions change
\* a signed-in user on the notes page who answered every stored question
\* wrongly once; the file holds question 1 with another text
InitStale ==
    /\ authentication_status = TRUE
    /\ username = "u1"
    /\ current_view = "notes"
    /\ questions_to_solve = <<>>
    /\ current_question_index = 0
    /\ user_answers = EmptyDict
    /\ original_questions = [id \in 1..MaxOrig |-> Row("q1", Labels, ListAnswer(<<1>>), "medium", "none")]
    /\ modified_questions = [i \in {} |-> Question({}, NullAnswer)]
    /\ modified_seq = 0
    /\ user_answers_tbl =
           [id \in 1..MaxOrig |-> save_user_answer(username, Entry(id, "original"), <<>>, FALSE,
                                                Min(id, MaxClock))]
    /\ results_out = NoResults
    /\ notes_out = <<>>
    /\ analytics_out = NoAnalytics
    /\ response = NoResponse
    /\ gemini_out = NoCall
    /\ ai_explanations = NoExplanations
    /\ explained_from = [k \in {} |-> 0]
    /\ grading = Idle
    /\ users = {}
    /\ browsers = [b \in {} |-> 0]
    /\ questions_final = <<Dict(1, Row("q2", Labels, ListAnswer(<<2>>), "medium", "none"))>>
    /\ last = NoClick

NextStale ==
    \/ \E v \in {"notes", "manage"} : Menu(v)
    \/ Explain
    \/ \E id \in 1..MaxOrig : EditQuestion(id, "q2", <<1>>, "medium")
    \/ \E levels \in Levels(FALSE, Len(questions_final)) : LoadFile(FALSE, levels)
    \/ ClearOriginals
    \/ AddQuestion(Row("q2", Labels, ListAnswer(<<2>>), "medium", "none"))

SpecStale == InitStale /\ [][NextStale]_vars

\* C1: a grading pass shows an entry whose question exists as correct if
\* and only if the labels chosen at its index, as a set, equal the stored
\* key's labels and the stored key is a non-empty list; an index with no
\* entry in user_answers counts as the empty set.
C1_GradedBySetEquality ==
    results_out.rendered =>
        \A i \in DOMAIN questions_to_solve :
            Present(questions_to_solve[i]) =>
                LET key == StoredAnswer(questions_to_solve[i])
                IN (results_out.shown[i] = "correct") <=>
                      (/\ key.kind = "list"
                       /\ key.items # <<>>
                       /\ Chosen(i - 1) = ToSet(key.items))

\* a two-label key stored as B, A is met by the clicks A, B
C1_Witness ==
    /\ results_out.rendered
    /\ \E i \in DOMAIN questions_to_solve :
          /\ Present(questions_to_solve[i])
          /\ StoredAnswer(questions_to_solve[i]) = ListAnswer(<<2, 1>>)
          /\ Get(user_answers, i - 1) = <<1, 2>>
          /\ results_out.shown[i] = "correct"

\* C2: a grading pass inserts one row per graded entry, whether the entry
\* was judged correct or incorrect.
C2_OneRecordPerGraded ==
    results_out.rendered => Len(results_out.saved) = Graded(results_out)

\* the rows of user's log for one (question id, variant) pair
PairRows(user, g) ==
    {i \in DOMAIN user_answers_tbl :
        /\ user_answers_tbl[i].username = user
        /\ user_answers_tbl[i].question_id = g.id
        /\ user_answers_tbl[i].question_type = g.question_type}

SingleKey(key) == key.kind = "list" /\ Len(key.items) = 1
MultiKey(key)  == key.kind = "list" /\ Len(key.items) > 1
EmptyKey(key)  == key.kind # "list" \/ key.items = <<>>

\* the step just taken was an option click on a question with such a key
ClickedOn(kind) ==
    /\ last.op = "select"
    /\ QuestionShown
    /\ CASE kind = "single" -> SingleKey(CurrentQuestion.answer)
         [] kind = "multi"  -> MultiKey(CurrentQuestion.answer)
         [] kind = "empty"  -> EmptyKey(CurrentQuestion.answer)

\* C4: after an option click on a question whose key has exactly one
\* label, the list at the cursor is exactly the clicked label.
C4_SingleKeepsLast ==
    ClickedOn("single") =>
        Get(user_answers, current_question_index) = <<last.label>>

\* label A was chosen, then label B was clicked
C4_Witness ==
    /\ ClickedOn("single")
    /\ last.before = <<1>>
    /\ last.label = 2
    /\ Get(user_answers, current_question_index) = <<2>>

\* C5: on a question whose key has more than one label, a click adds the
\* label if it was absent and removes it if it was present, and the second
\* of two clicks in a row on one label leaves the set the pair started from.
C5_ToggleTwiceRestores ==
    ClickedOn("multi") =>
        LET now    == Chosen(current_question_index)
            before == ToSet(last.before)
        IN IF last.repeat
           THEN now = before
           ELSE now = IF last.label \in before
                      THEN before \ {last.label}
                      ELSE before \cup {last.label}

\* a chosen label of a two-label selection was clicked twice
C5_Witness ==
    /\ ClickedOn("multi")
    /\ last.repeat
    /\ Len(last.before) = 2
    /\ last.label = last.before[1]
    /\ Chosen(current_question_index) = ToSet(last.before)

\* C6: a question whose key is empty or does not decode asks for 1 answer,
\* and a click on it leaves exactly the clicked label.
C6_EmptyKeyIsSingleSelect ==
    /\ \A id \in DOMAIN original_questions :
          EmptyKey(original_questions[id].answer) => answer_count(original_questions[id]) = 1
    /\ \A id \in DOMAIN modified_questions :
          EmptyKey(modified_questions[id].answer) => answer_count(modified_questions[id]) = 1
    /\ ClickedOn("empty") =>
          Get(user_answers, current_question_index) = <<last.label>>

\* on an empty key label A was chosen, then label B was clicked
C6_Witness ==
    /\ ClickedOn("empty")
    /\ last.before = <<1>>
    /\ last.label = 2
    /\ Get(user_answers, current_question_index) = <<2>>

\* C7: while the session has questions the cursor is one of 0..N-1;
\* "next" leaves it one above and "previous" one below where it started.
C7_CursorInRange ==
    /\ questions_to_solve # <<>> =>
          current_question_index \in 0..(Len(questions_to_solve) - 1)
    /\ last.op = "next" => current_question_index = last.from + 1
    /\ last.op = "prev" => current_question_index = last.from - 1

\* "previous" brought the cursor back from the last of two questions
C7_Witness ==
    /\ Len(questions_to_solve) = MaxOrig
    /\ last.op = "prev"
    /\ last.from = Len(questions_to_solve) - 1
    /\ current_question_index = Len(questions_to_solve) - 2

\* C8: right after a start by any route (random, by id, retry of the wrong
\* answers) the cursor is 0 and no index has a chosen label.
C8_StartResets ==
    last.op \in {"start", "retry_wrong"} =>
        /\ current_question_index = 0
        /\ \A i \in DOMAIN user_answers : user_answers[i] = <<>>

\* C9 as stated: whenever the results are drawn the session list is
\* non-empty.
C9_GradingHasQuestions ==
    results_out.rendered => questions_to_solve # <<>>

\* C9 amended: the results can be drawn on an empty session list; the pass
\* counts total_questions as the length of the list, shows a score only
\* when that is above 0, and on an empty list grades and saves nothing.
C9_ScoreOnlyWhenNonEmpty ==
    results_out.rendered =>
        /\ results_out.total_questions = Len(questions_to_solve)
        /\ results_out.score_shown <=> results_out.total_questions > 0
        /\ questions_to_solve = <<>> =>
              results_out.shown = <<>> /\ results_out.saved = <<>>

\* the results drawn on an empty list
C9_Witness ==
    /\ results_out.rendered
    /\ questions_to_solve = <<>>
    /\ ~results_out.score_shown

\* the session with the entries whose question is gone taken out
PresentIndexes == {i \in DOMAIN questions_to_solve : Present(questions_to_solve[i])}

RECURSIVE Ascending(_)
Ascending(S) ==
    IF S = {} THEN <<>>
    ELSE LET m == CHOOSE x \in S : \A y \in S : x <= y
         IN <<m>> \o Ascending(S \ {m})

PassStamp == IF results_out.saved = <<>> THEN 1 ELSE results_out.saved[1].solved_at

\* C10: a pass shows an entry whose question is gone as missing and saves
\* no row for it, and shows and saves for the other entries what a pass
\* over the session without the missing entries shows and saves.
C10_MissingSkipped ==
    results_out.rendered =>
        LET keep  == Ascending(PresentIndexes)
            qs    == [k \in DOMAIN keep |-> questions_to_solve[keep[k]]]
            ans   == [k \in 0..(Len(keep) - 1) |-> Get(user_answers, keep[k + 1] - 1)]
            alone == display_results_loop(qs, ans, username, original_questions,
                                          modified_questions, PassStamp, 0)
        IN /\ \A i \in DOMAIN questions_to_solve :
                 (results_out.shown[i] = "missing") <=> (i \notin PresentIndexes)
           /\ [k \in DOMAIN keep |-> results_out.shown[keep[k]]] = alone.shown
           /\ results_out.saved = alone.saved
           /\ \A k \in DOMAIN results_out.saved :
                 Present(Entry(results_out.saved[k].question_id,
                               results_out.saved[k].question_type))

\* the first entry is gone and the second is graded and saved
C10_Witness ==
    /\ results_out.rendered
    /\ Len(questions_to_solve) = 2
    /\ ~Present(questions_to_solve[1])
    /\ Present(questions_to_solve[2])
    /\ results_out.shown = <<"missing", "incorrect">>
    /\ Len(results_out.saved) = 1

\* C11: right after a random start on original questions asking for k at
\* a difficulty whose pool has m ids, the session has min(k, m) distinct
\* entries of type original from the pool and the quiz is shown when
\* m > 0, and the session is empty and the home page stays when m = 0.
C11_RandomOriginalSize ==
    (last.op = "start" /\ last.route = "random_original") =>
        LET pool == get_question_ids_by_difficulty(original_questions, last.difficulty)
            m    == Cardinality(pool)
        IN IF m = 0
           THEN questions_to_solve = <<>> /\ current_view = "home"
           ELSE /\ current_view = "quiz"
                /\ Len(questions_to_solve) = (IF last.asked <= m THEN last.asked ELSE m)
                /\ \A i \in DOMAIN questions_to_solve :
                      /\ questions_to_solve[i].type = "original"
                      /\ questions_to_solve[i].id \in pool
                /\ \A i, j \in DOMAIN questions_to_solve :
                      i # j => questions_to_solve[i] # questions_to_solve[j]

\* more questions were asked for than the store holds
C11_Witness ==
    /\ last.op = "start"
    /\ last.route = "random_original"
    /\ last.asked = MaxOrig + 1
    /\ Len(questions_to_solve) = MaxOrig
    /\ current_view = "quiz"

\* C12: right after a random start on AI variants one generation call was
\* made per sampled id; the session has one entry of type modified per
\* generation that succeeded, each a stored modified question, and the quiz
\* is shown; when none succeeded the session is empty and the home page
\* stays.
C12_OneEntryPerGeneration ==
    (last.op = "start" /\ last.route = "random_modified") =>
        LET m == Cardinality(DOMAIN original_questions)
        IN /\ last.calls = (IF last.asked <= m THEN last.asked ELSE m)
           /\ Len(questions_to_solve) = last.generated
           /\ \A i \in DOMAIN questions_to_solve :
                 /\ questions_to_solve[i].type = "modified"
                 /\ questions_to_solve[i].id \in DOMAIN modified_questions
           /\ \A i, j \in DOMAIN questions_to_solve :
                 i # j => questions_to_solve[i] # questions_to_solve[j]
           /\ IF last.generated = 0
              THEN current_view = "home"
              ELSE current_view = "quiz"

\* of two generation calls one failed and the other one's variant is solved
C12_Witness ==
    /\ last.op = "start"
    /\ last.route = "random_modified"
    /\ last.calls = 2
    /\ last.generated = 1
    /\ Len(questions_to_solve) = 1
    /\ current_view = "quiz"

\* C13: right after "retry the wrong questions" the quiz is shown with the
\* cursor at 0 and no chosen label, on a session that holds each of the
\* user's pairs with an incorrect row once and nothing else.
C13_RetryListsWrongPairs ==
    last.op = "retry_wrong" =>
        /\ current_view = "quiz"
        /\ current_question_index = 0
        /\ \A i \in DOMAIN user_answers : user_answers[i] = <<>>
        /\ {questions_to_solve[i] : i \in DOMAIN questions_to_solve} =
              {Entry(g.id, g.question_type) :
                  g \in WrongGroups(username, user_answers_tbl,
                                    original_questions, modified_questions)}
        /\ \A i, j \in DOMAIN questions_to_solve :
              i # j => questions_to_solve[i] # questions_to_solve[j]

UserRows == {i \in DOMAIN user_answers_tbl : user_answers_tbl[i].username = username}

\* C14: the analytics page gets as total the number of all rows of the
\* user, repeated attempts included, and as correct the number of those
\* marked correct, whatever rows other users have; with no row of the user
\* it gets 0, 0 and 0.
C14_StatsCountEveryAttempt ==
    analytics_out.rendered =>
        /\ analytics_out.total = Cardinality(UserRows)
        /\ analytics_out.correct =
              Cardinality({i \in UserRows : user_answers_tbl[i].is_correct})
        /\ UserRows = {} => analytics_out.accuracy = 0

\* two attempts on one question, one of them correct, beside a row of
\* another user
C14_Witness ==
    /\ analytics_out.rendered
    /\ analytics_out.total = 2
    /\ analytics_out.correct = 1
    /\ Len(user_answers_tbl) = 3
    /\ \A i \in UserRows : user_answers_tbl[i].question_id = 1

\* the user's incorrect rows on an existing original question
Misses(id) ==
    Cardinality({i \in UserRows :
        /\ user_answers_tbl[i].question_id = id
        /\ user_answers_tbl[i].question_type = "original"
        /\ ~user_answers_tbl[i].is_correct})

Missed == {id \in DOMAIN original_questions : Misses(id) > 0}

\* a comes before b: more misses, or as many and the lower id
RanksBefore(a, b) ==
    Misses(a) > Misses(b) \/ (Misses(a) = Misses(b) /\ a < b)

\* C15: the analytics page lists at most 5 original questions, each with
\* the number of the user's incorrect rows for it, in descending order of
\* that number and ascending id among equals, and every missed question
\* left out comes after all that are listed.
C15_TopFiveMissed ==
    analytics_out.rendered =>
        LET top == analytics_out.top
        IN /\ Len(top) = (IF Cardinality(Missed) <= 5 THEN Cardinality(Missed) ELSE 5)
           /\ \A k \in DOMAIN top :
                 top[k].id \in Missed /\ top[k].wrong_count = Misses(top[k].id)
           /\ \A j, k \in DOMAIN top : j < k => RanksBefore(top[j].id, top[k].id)
           /\ \A id \in Missed :
                 (\A k \in DOMAIN top : top[k].id # id) =>
                     \A k \in DOMAIN top : RanksBefore(top[k].id, id)

\* six questions missed, the last one twice: it is listed first, then
\* questions 1 to 4
C15_Witness ==
    /\ analytics_out.rendered
    /\ Cardinality(Missed) = 6
    /\ Misses(6) = 2
    /\ \A id \in 1..5 : Misses(id) = 1
    /\ [k \in DOMAIN analytics_out.top |-> analytics_out.top[k].id] = <<6, 1, 2, 3, 4>>

\* the value _clean_and_parse_json gave in the step just taken
Parsed == gemini_out.fn = "_clean_and_parse_json"

\* the fenced blocks of a text that hold a JSON object: an opening fence
\* marked json at i, a fence at j, and between them a text that decodes to
\* an object
ObjectBlocks(t, members) ==
    {b \in (1..Len(t)) \X (1..Len(t)) :
        /\ t[b[1]] = FenceJson
        /\ b[1] < b[2]
        /\ t[b[2]] \in {Fence, FenceJson}
        /\ json_loads(SubSeq(t, b[1] + 1, b[2] - 1), members).value.kind = "object"}

\* C16: the parser gives the parse of the contents of a fenced block that
\* holds a JSON object when the text has one, and else, when the text has
\* both braces, the parse of the text from its first '{' to its last '}'.
C16_FenceThenBraces ==
    Parsed =>
        LET t == response.text
            blocks == ObjectBlocks(t, response.members)
        IN  IF blocks # {}
            THEN \E b \in blocks :
                     gemini_out.value =
                         json_loads(SubSeq(t, b[1] + 1, b[2] - 1), response.members).value
            ELSE (find(t, "{") # 0 /\ rfind(t, "}") # 0) =>
                     gemini_out.value =
                         json_loads(SubSeq(t, find(t, "{"), rfind(t, "}")), response.members).value

\* the texts that hold neither brace
BraceFree(t) == find(t, "{") = 0 /\ rfind(t, "}") = 0

\* C17: on a response without any brace the parser gives nothing, and the
\* explanation and the variant operation return an error that carries the
\* raw text.
C17_BraceFreeFails ==
    (response.status = "ok" /\ BraceFree(response.text)) =>
        /\ Parsed => gemini_out.value = NoneValue
        /\ gemini_out.fn \in {"generate_explanation", "generate_modified_question"} =>
               /\ gemini_out.error
               /\ gemini_out.with_raw
               /\ gemini_out.raw = response.text

\* analyze_difficulty was called in the step just taken
Analyzed == gemini_out.fn = "analyze_difficulty"
Tokens3 == {<<d>> : d \in DifficultyLevels}

\* C18 (as stated): the raw output is returned only when it is itself one
\* of the three tokens, every other output gives the default.
C18_ExactTokenOnly ==
    (Analyzed /\ response.status = "ok" /\ response.text \notin Tokens3) =>
        gemini_out.raw = <<"medium">>

\* C18: analyze_difficulty returns the output with the white space around it
\* removed when that is one of the three tokens, compared case-sensitively;
\* every other output and every failure of the call gives 'medium'; the
\* result is one of the three tokens and never an error.
C18_StrippedTokenOrDefault ==
    Analyzed =>
        /\ ~gemini_out.error
        /\ gemini_out.raw \in Tokens3
        /\ gemini_out.raw =
               IF response.status = "ok" /\ strip(response.text) \in Tokens3
               THEN strip(response.text)
               ELSE <<"medium">>

\* an answer padded with white space came back as its token, a capitalised
\* one as the default
C18_Witness ==
    /\ Analyzed
    /\ response.status = "ok"
    /\ \/ response.text = <<" ", "hard", " ">> /\ gemini_out.raw = <<"hard">>
       \/ response.text = <<"Easy">> /\ gemini_out.raw = <<"medium">>

\* generate_modified_question was called in the step just taken, on a
\* response that decodes to the object the response holds
VariantOf(parsed) ==
    /\ gemini_out.fn = "generate_modified_question"
    /\ response.status = "ok"
    /\ _clean_and_parse_json(response.text, response.members) = parsed
ParsedVariant == ObjectValue(response.members)

\* C19 (as stated): an answer that is no list comes back as a list of one
\* element, that scalar itself.
C19_ListHoldsScalar ==
    (/\ VariantOf(ParsedVariant)
     /\ VariantKeys \subseteq ParsedVariant.keys
     /\ ParsedVariant.answer.type # "list") =>
        /\ ~gemini_out.error
        /\ gemini_out.value.answer = [type |-> "list", elem |-> ParsedVariant.answer.elem]

\* C19: variant generation returns an error when the parsed object lacks
\* one of question, options, answer; with all three and an answer that is no
\* list the answer returned is a list of one element, the string str() makes
\* of that value; a list is returned as it is; every result that is no error
\* has the three keys and a list as its answer.
C19_AnswerIsAList ==
    /\ (VariantOf(ParsedVariant) /\ truthy(ParsedVariant)) =>
           IF ~(VariantKeys \subseteq ParsedVariant.keys)
           THEN gemini_out.error
           ELSE /\ ~gemini_out.error
                /\ gemini_out.value.keys = ParsedVariant.keys
                /\ gemini_out.value.answer =
                       IF ParsedVariant.answer.type = "list"
                       THEN ParsedVariant.answer
                       ELSE [type |-> "list", elem |-> Str(py_str(ParsedVariant.answer.elem))]
    /\ (gemini_out.fn = "generate_modified_question" /\ ~gemini_out.error) =>
           /\ gemini_out.value.kind = "object"
           /\ VariantKeys \subseteq gemini_out.value.keys
           /\ gemini_out.value.answer.type = "list"

\* a variant whose answer was the number 1 came back with the answer ["1"]
C19_Witness ==
    /\ VariantOf(ParsedVariant)
    /\ ParsedVariant.keys = VariantKeys
    /\ ParsedVariant.answer.type = "number"
    /\ ~gemini_out.error
    /\ gemini_out.value.answer = [type |-> "list", elem |-> Str("1")]

\* the question the explanation was asked for in the step being taken
Asked == <<last'.q_id, last'.q_type>>

\* C20: a request for the explanation of (q, t) calls the AI only when
\* nothing is stored for (q, t); while an explanation is stored, and until
\* it is deleted, every request returns the stored one, calls nothing and
\* leaves the table; a generation that succeeds is stored.
C20_StoredExplanationIsReused ==
    [][last'.op = "explain" =>
          /\ response'.status # "none" => Asked \notin DOMAIN ai_explanations
          /\ Asked \in DOMAIN ai_explanations =>
                 /\ response' = NoResponse
                 /\ ~gemini_out'.error
                 /\ gemini_out'.value =
                        json_loads(ai_explanations[Asked].text,
                                   ai_explanations[Asked].members).value
                 /\ ai_explanations' = ai_explanations
          /\ (/\ Asked \notin DOMAIN ai_explanations
              /\ ~gemini_out'.error
              /\ "error" \notin gemini_out'.value.keys) =>
                 /\ Asked \in DOMAIN ai_explanations'
                 /\ get_ai_explanation_from_db(ai_explanations', Asked[1], Asked[2])
                        = gemini_out'.value
      ]_vars

\* a request answered from the table: an explanation is stored for the
\* question asked about, nothing was called and the stored one came back
C20_Witness ==
    /\ last.op = "explain"
    /\ <<last.q_id, last.q_type>> \in DOMAIN ai_explanations
    /\ response = NoResponse
    /\ gemini_out.fn = "get_ai_explanation"
    /\ ~gemini_out.error
    /\ gemini_out.value = get_ai_explanation_from_db(ai_explanations, last.q_id, last.q_type)

\* a is what is left of b when rows of b are deleted
RECURSIVE Remains(_, _)
Remains(a, b) ==
    IF a = <<>> THEN TRUE
    ELSE IF b = <<>> THEN FALSE
    ELSE IF Head(a) = Head(b) THEN Remains(Tail(a), Tail(b))
    ELSE Remains(a, Tail(b))

C26_MoveAndSelectDisjoint ==
    [][/\ last'.op \in {"prev", "next"} =>
             /\ current_question_index' =
                    current_question_index + (IF last'.op = "next" THEN 1 ELSE -1)
             /\ questions_to_solve' = questions_to_solve
             /\ \A i \in 0..Len(questions_to_solve) :
                    Get(user_answers', i) = Get(user_answers, i)
             /\ current_view' = current_view
             /\ user_answers_tbl' = user_answers_tbl
       /\ last'.op = "select" =>
             /\ current_question_index' = current_question_index
             /\ questions_to_solve' = questions_to_solve
             /\ \A i \in (0..Len(questions_to_solve)) \ {current_question_index} :
                    Get(user_answers', i) = Get(user_answers, i)
             /\ current_view' = current_view
             /\ user_answers_tbl' = user_answers_tbl
      ]_vars

\* back on the first question after choosing on both: both choices are kept
C26_Witness ==
    /\ last.op = "prev"
    /\ current_question_index = 0
    /\ Get(user_answers, 0) # <<>>
    /\ Get(user_answers, 1) # <<>>

\* the start just made had nothing to load: no question of the difficulty
\* asked for, no generation that succeeded, or no question of the id
StartFailed ==
    /\ last.op = "start"
    /\ CASE last.route = "random_original" ->
                get_question_ids_by_difficulty(original_questions, last.difficulty) = {}
         [] last.route = "random_modified" -> last.generated = 0
         [] last.route = "by_id" -> last.q_id \notin DOMAIN original_questions
         [] OTHER -> FALSE

\* C27: after a start that failed the session list is empty, the cursor is
\* 0, no index has a chosen label and the quiz view is not shown.
C27_FailedStartLeavesNothing ==
    StartFailed =>
        /\ questions_to_solve = <<>>
        /\ current_question_index = 0
        /\ \A i \in DOMAIN user_answers : user_answers[i] = <<>>
        /\ current_view # "quiz"

\* every generation of a start on variants failed, after calls were made
C27_Witness ==
    /\ StartFailed
    /\ last.route = "random_modified"
    /\ last.calls > 0
    /\ questions_to_solve = <<>>
    /\ current_view = "home"

\* the request of the step being taken failed: an error came back, or a
\* dictionary with an "error" key
Failed == gemini_out'.error \/ "error" \in gemini_out'.value.keys

\* C29: a request that fails leaves the table of explanations as it was,
\* with nothing stored for the question asked about; a request for a
\* question with nothing stored calls generate_explanation; and no row of
\* the table is an error: each decodes to a dictionary without "error".
C29_FailureIsNotStored ==
    [][last'.op = "explain" =>
          /\ Failed => /\ ai_explanations' = ai_explanations
                       /\ Asked \notin DOMAIN ai_explanations'
          /\ Asked \notin DOMAIN ai_explanations => response'.status # "none"
          /\ \A k \in DOMAIN ai_explanations' :
                 LET stored == get_ai_explanation_from_db(ai_explanations', k[1], k[2])
                 IN  stored.kind = "object" /\ "error" \notin stored.keys
      ]_vars

\* a request failed on a server error while the other question has an
\* explanation stored, and nothing is stored for the one asked about
C29_Witness ==
    /\ last.op = "explain"
    /\ gemini_out.error
    /\ response.status = "server_error"
    /\ <<last.q_id, last.q_type>> \notin DOMAIN ai_explanations
    /\ ai_explanations # NoExplanations

\* the three functions that send requests to the API
AiOperations == {"generate_explanation", "generate_modified_question", "analyze_difficulty"}

C28_NoRowOfDeletedVariant ==
    \A i \in DOMAIN user_answers_tbl :
        user_answers_tbl[i].question_type = "modified"
            => user_answers_tbl[i].question_id \in DOMAIN modified_questions

\* the rows of the table users under the reserved name
MasterRows(tbl) == {r \in tbl : r.username = MASTER_ACCOUNT_USERNAME}

\* C24: once a startup has provisioned the master account, whatever
\* startups, sign-ups, deletions and withdrawals follow in whatever browser,
\* the table users holds exactly one row named 'admin' and its role is
\* 'admin'; every browser that is through its startup finds it so; and a
\* sign-up, whatever name is typed, leaves the rows named 'admin' as they
\* were.
C24_OneReservedAdmin ==
    []((\E b \in Browsers : browsers[b].pc = "ready") =>
            /\ Cardinality(MasterRows(users)) = 1
            /\ \A r \in MasterRows(users) : r.role = "admin")
    /\ [][/\ MasterRows(users) # {} => MasterRows(users') = MasterRows(users)
          /\ last'.op = "signup" => MasterRows(users') = MasterRows(users)]_vars

\* the name 'admin' was typed into the sign-up form of one browser, after
\* every browser went through its startup, while the administrator is
\* signed in in another
C24_Witness ==
    /\ last.op = "signup"
    /\ last.name = MASTER_ACCOUNT_USERNAME
    /\ \A b \in Browsers : browsers[b].pc = "ready"
    /\ \E b \in Browsers : browsers[b].user = MASTER_ACCOUNT_USERNAME
    /\ users = {UserRow(MASTER_ACCOUNT_USERNAME, "Master Admin", "master", "admin")}

\* a stored question with at least two options and a non-empty list of
\* answer labels that are all among its options
WellFormed(question) ==
    /\ Cardinality(question.options) >= 2
    /\ question.answer.kind = "list"
    /\ question.answer.items # <<>>
    /\ ToSet(question.answer.items) \subseteq question.options

\* C21: whatever was added, edited, loaded from the file or saved as a
\* variant, every row of original_questions and of modified_questions has
\* at least two options and a non-empty answer among its option labels.
C21_StoredQuestionsWellFormed ==
    /\ \A id \in DOMAIN original_questions : WellFormed(original_questions[id])
    /\ \A id \in DOMAIN modified_questions : WellFormed(modified_questions[id])

\* C25: loading the file that holds the export of the table leaves the
\* table as it was before the export: the same ids with the same text,
\* options, answer, difficulty and media reference.
C25_ExportThenImportRestores ==
    [][(last'.op = "load"
          /\ questions_final = export_questions_to_json_format(original_questions))
       => original_questions' = original_questions]_vars

\* C30: an explanation of an original question that get_ai_explanation
\* returns from the table was generated from the row stored under that id
\* now, whatever edits, loads, clearings and additions came in between.
C30_StoredExplanationIsOfTheQuestion ==
    (/\ last.op = "explain"
     /\ last.q_type = "original"
     /\ response = NoResponse
     /\ ~gemini_out.error
     /\ last.q_id \in DOMAIN original_questions)
        => explained_from[<<last.q_id, "original">>] = original_questions[last.q_id]

====
